---------------------------- MODULE Spec2Model ----------------------------
(***************************************************************************)
(* Model of the CheerLights twitter client:                                *)
(*   - TweepyWrapper (cheer_lights_twitter_api/tweepy_wrapper.py): the     *)
(*     posting client with its two vendor API versions, its credential     *)
(*     resolution and its connect / disconnect life cycle.                 *)
(*   - CheerLightTwitterAPI (cheer_lights_twitter_api/                     *)
(*     cheer_lights_twitter_api.py): colour validation and the templated   *)
(*     payload of a colour post.                                           *)
(*   - CornHoleTweeter (cornhole_mqtt_client_tweeter.py): the handler of   *)
(*     the MQTT messages of the cornhole game.                             *)
(*                                                                         *)
(* Each of the three has its own specification; the variables of the       *)
(* other two stay as they are in it.                                       *)
(*                                                                         *)
(* Python's Optional[T] is modelled as a sequence of length <= 1:          *)
(* None is <<>> and the value v is <<v>>.                                  *)
(***************************************************************************)
EXTENDS Integers, Sequences, FiniteSets, TLC

VARIABLES
    client,        \* the TweepyWrapper object (its private attributes)
    fs,            \* the key directory and the process environment
    pc,            \* position of the caller: plain calls or a with-block
    last,          \* the last call made on client and its visible outcome
    connected_since, \* history: a connect() returned normally since
                     \* construction / the last disconnect()
    pair,          \* a V1 and a V2 client driven in lockstep
    pair_last,     \* the outcome of the last lockstep call on each of them
    api,           \* a CheerLightTwitterAPI object
    api_last,      \* the last call made on api and its visible outcome
    game,          \* a CornHoleTweeter object
    msg            \* the last MQTT message game handled and what came of it

\* the variables of the colour client and of the cornhole client
colour_vars == <<api, api_last>>
game_vars == <<game, msg>>

vars == <<client, fs, pc, last, connected_since, pair, pair_last, api, api_last,
          game, msg>>

---------------------------------------------------------------------------
(* Bounds of the model *)

MaxTweetId == 10
MaxUserId == 2
MaxTweets == 2

None == <<>>
Some(v) == <<v>>

TweetIds == 9..MaxTweetId
UserIds == 1..MaxUserId
Payloads == {"@cheerlights red", "test tweet"}
Counts == 1..MaxTweets

---------------------------------------------------------------------------
(* Python conversions *)

\* str(n) of a non negative integer: its decimal digits, most significant first
RECURSIVE StrOfInt(_)
StrOfInt(n) == IF n < 10 THEN <<n>> ELSE Append(StrOfInt(n \div 10), n % 10)

\* int(s) of a string of decimal digits
RECURSIVE IntOfStr(_)
IntOfStr(s) ==
    IF Len(s) = 0 THEN 0
    ELSE 10 * IntOfStr(SubSeq(s, 1, Len(s) - 1)) + s[Len(s)]

---------------------------------------------------------------------------
(* The enum TwitterAPIVersion *)

TwitterAPIVersion == {"V1", "V2"}

(* _TwitterAPIKeys: where each key came from.  consumer is the pair         *)
(* (consumer_key, consumer_secret), access the pair (access_token,          *)
(* access_secret); the code always sets the two members of a pair together. *)
TwitterAPIKeys(consumer, access) == [consumer |-> consumer, access |-> access]

(* The names of the four environment variables, in the order                *)
(* get_keys_from_env checks them.                                            *)
EnvNames == <<"TWITTER_API_KEY", "TWITTER_API_SECRET",
              "TWITTER_ACCESS_TOKEN", "TWITTER_ACCESS_SECRET">>

EnvNameSet == {EnvNames[i] : i \in 1..Len(EnvNames)}

(* The environments considered: every variable set, exactly one missing,   *)
(* none set.                                                               *)
Environments ==
    {EnvNameSet, {}} \cup {EnvNameSet \ {n} : n \in EnvNameSet}

(* TweepyWrapper.__init__: the object after construction *)
TweepyWrapper(api_version, suppress_tweeting, suppress_connection, generate_access) ==
    [api_version |-> api_version,
     suppress_tweeting |-> suppress_tweeting,
     suppress_connection |-> suppress_connection,
     generate_access_token |-> generate_access,
     twitter_api |-> None,      \* tweepy.API handle (V1)
     twitter_client |-> None,   \* tweepy.Client handle (V2)
     user_id |-> None]

---------------------------------------------------------------------------
(* Outcomes of a call, as the caller sees them *)

Outcome(status, err, detail, id, tweets) ==
    [status |-> status, err |-> err, detail |-> detail, id |-> id, tweets |-> tweets]

Returned == Outcome("ok", "", "", None, <<>>)
ReturnedId(i) == Outcome("ok", "", "", i, <<>>)
ReturnedTweets(t) == Outcome("ok", "", "", None, t)
Raised(e) == Outcome("raise", e, "", None, <<>>)
RaisedWith(e, detail) == Outcome("raise", e, detail, None, <<>>)

\* Tweet(tweet_id, text): the record user_tweets returns
Tweet(tweet_id, text) == [tweet_id |-> tweet_id, text |-> text]

(* A call on the vendor library (tweepy) *)
VendorCall(name, text, num) ==
    [name |-> name, text |-> text, num |-> num, user |-> None]
\* a call that also passes the user identifier recorded by connect()
VendorUserCall(name, num, user) ==
    [name |-> name, text |-> "", num |-> num, user |-> user]

(* What one method call yields: the object afterwards, the outcome, the    *)
(* vendor calls made in order, the access file afterwards, the number of   *)
(* file writes and the credential sources read.                            *)
Effect(c, res, calls, access_file, writes, reads) ==
    [c |-> c, res |-> res, calls |-> calls, access_file |-> access_file,
     writes |-> writes, reads |-> reads]

---------------------------------------------------------------------------
(* Responses of the vendor library, in the shape each API version uses *)

\* tweepy.API.verify_credentials() -> User with an integer id
V1User(uid) == [id |-> uid]
\* tweepy.Client.get_me() -> Response whose data['id'] is a decimal string
V2User(uid) == [data |-> [id |-> StrOfInt(uid)]]

\* tweepy.API.update_status() -> Status with an integer id
V1Status(tid, text) == [id |-> tid, text |-> text]
\* tweepy.Client.create_tweet() / an entry of get_users_tweets().data
V2TweetData(tid, text) == [id |-> StrOfInt(tid), text |-> text]

---------------------------------------------------------------------------
(* connect(): credential resolution, lines 116-180 *)

KeysResult(err, detail, keys, reads) ==
    [err |-> err, detail |-> detail, keys |-> keys, reads |-> reads]

NoKeys == TwitterAPIKeys("", None)

get_keys_from_files(f, generate_access_token) ==
    IF f.consumer_file = "malformed"
    THEN KeysResult("MalformedCredentialsFile", "", NoKeys, {"consumer_file"})
    ELSE IF generate_access_token = FALSE
         THEN IF f.access_file = "absent"
              THEN KeysResult("MissingAccessFile", "", NoKeys, {"consumer_file"})
              ELSE KeysResult("", "", TwitterAPIKeys("file", Some(f.access_file)),
                              {"consumer_file", "access_file"})
         ELSE KeysResult("", "", TwitterAPIKeys("file", None), {"consumer_file"})

\* the first of the four variables that is not set, 0 when all are set
FirstMissing(env) ==
    IF \A i \in 1..Len(EnvNames) : EnvNames[i] \in env THEN 0
    ELSE CHOOSE i \in 1..Len(EnvNames) :
            /\ EnvNames[i] \notin env
            /\ \A j \in 1..(i - 1) : EnvNames[j] \in env

\* get_keys_from_env that hands on whatever os.environ.get returned
get_keys_from_env_unchecked(f) ==
    KeysResult("", "", TwitterAPIKeys("env", Some("env")), {"env"})

\* get_keys_from_env, lines 136-160
get_keys_from_env(f) ==
    IF FirstMissing(f.env) # 0
    THEN KeysResult("MissingEnvironmentVariable", EnvNames[FirstMissing(f.env)], NoKeys, {"env"})
    ELSE KeysResult("", "", TwitterAPIKeys("env", Some("env")), {"env"})

\* lines 166-180
resolve_keys(c, f) ==
    IF f.consumer_file # "absent"
    THEN get_keys_from_files(f, c.generate_access_token)
    ELSE IF c.generate_access_token = TRUE
         THEN KeysResult("UnsupportedConfiguration", "", NoKeys, {})
         ELSE get_keys_from_env(f)

---------------------------------------------------------------------------
(* connect(): the interactive token generation, lines 182-216 *)

\* what the operator and the vendor answer during one connect()
ConnectInputs ==
    [auth_url_ok : BOOLEAN,      \* auth.get_authorization_url() returns
     pin_ok : BOOLEAN,           \* auth.get_access_token(verifier) returns
     confirm : {"Y", "N", "X"},  \* answer to the overwrite prompt, upper case
     verify : {None} \cup {Some(u) : u \in UserIds}]
                                 \* identity the vendor confirms, None: it raises

AuthResult(err, keys, calls, access_file, writes) ==
    [err |-> err, keys |-> keys, calls |-> calls,
     access_file |-> access_file, writes |-> writes]

\* an overwrite prompt whose answer N is taken for Y
confirm_overwrite_always_writes(f, keys, inp, calls) ==
    IF inp.confirm \in {"Y", "N"}
    THEN AuthResult("", TwitterAPIKeys(keys.consumer, Some("new")), calls, "new", 1)
    ELSE AuthResult("InvalidUserChoice", keys, calls, f.access_file, 0)

\* lines 194-212: the access file exists, the operator is asked
confirm_overwrite(f, keys, inp, calls) ==
    IF inp.confirm = "Y"
    THEN AuthResult("", TwitterAPIKeys(keys.consumer, Some("new")), calls, "new", 1)
    ELSE IF inp.confirm = "N"
         THEN AuthResult("", TwitterAPIKeys(keys.consumer, Some("new")), calls,
                         f.access_file, 0)
         ELSE AuthResult("InvalidUserChoice", keys, calls, f.access_file, 0)

authorise(c, f, keys, inp) ==
    IF c.generate_access_token = TRUE
    THEN LET c1 == <<VendorCall("OAuthHandler", "", 0),
                     VendorCall("get_authorization_url", "", 0)>>
             c2 == Append(c1, VendorCall("get_access_token", "", 0))
         IN  IF ~inp.auth_url_ok
             THEN AuthResult("VendorError", keys, c1, f.access_file, 0)
             ELSE IF ~inp.pin_ok
                  THEN AuthResult("VendorError", keys, c2, f.access_file, 0)
                  ELSE IF f.access_file # "absent"
                       THEN confirm_overwrite(f, keys, inp, c2)
                       ELSE AuthResult("", keys, c2, f.access_file, 0)
    ELSE AuthResult("", keys, <<VendorCall("OAuth1UserHandler", "", 0)>>,
                    f.access_file, 0)

---------------------------------------------------------------------------
(* connect(): the vendor handle and the identity check, lines 218-244 *)

\* the handle of the configured version, built from the resolved keys
Handle(keys) == [keys |-> keys]

\* lines 218-229
build_handle(c, keys) ==
    IF c.api_version = "V1"
    THEN [c |-> [c EXCEPT !.twitter_api = Some(Handle(keys))],
          calls |-> <<VendorCall("set_access_token", "", 0),
                      VendorCall("API", "", 0)>>]
    ELSE [c |-> [c EXCEPT !.twitter_client = Some(Handle(keys))],
          calls |-> <<VendorCall("Client", "", 0)>>]

\* _connect_verify, lines 233-244
connect_verify(c, inp) ==
    IF c.api_version = "V1"
    THEN IF inp.verify = None
         THEN [c |-> c, res |-> Raised("VendorError"),
               calls |-> <<VendorCall("verify_credentials", "", 0)>>]
         ELSE [c |-> [c EXCEPT !.user_id = Some(V1User(inp.verify[1]).id)],
               res |-> Returned,
               calls |-> <<VendorCall("verify_credentials", "", 0)>>]
    ELSE IF inp.verify = None
         THEN [c |-> c, res |-> Raised("VendorError"),
               calls |-> <<VendorCall("get_me", "", 0)>>]
         ELSE [c |-> [c EXCEPT !.user_id =
                          Some(IntOfStr(V2User(inp.verify[1]).data.id))],
               res |-> Returned,
               calls |-> <<VendorCall("get_me", "", 0)>>]

\* connect, lines 165-231: the branch taken when the connection is not
\* suppressed
connect_to_twitter(c, f, inp) ==
    LET kr == resolve_keys(c, f)
    IN  IF kr.err # ""
        THEN Effect(c, RaisedWith(kr.err, kr.detail), <<>>, f.access_file, 0, kr.reads)
        ELSE LET ar == authorise(c, f, kr.keys, inp)
             IN  IF ar.err # ""
                 THEN Effect(c, Raised(ar.err), ar.calls, ar.access_file,
                             ar.writes, kr.reads)
                 ELSE LET built == build_handle(c, ar.keys)
                          v == connect_verify(built.c, inp)
                      IN  Effect(v.c, v.res, ar.calls \o built.calls \o v.calls,
                                 ar.access_file, ar.writes, kr.reads)

\* connect() that forgets the suppress_connection option
connect_always(c, f, inp) == connect_to_twitter(c, f, inp)

\* connect, lines 107-231
connect(c, f, inp) ==
    IF c.suppress_connection = TRUE
    THEN Effect(c, Returned, <<>>, f.access_file, 0, {})
    ELSE connect_to_twitter(c, f, inp)

\* __enter__, lines 260-262
enter(c, f, inp) == connect(c, f, inp)

\* disconnect() that drops the handle and keeps the recorded identity
disconnect_keeps_user(c) ==
    IF c.api_version = "V1"
    THEN [c EXCEPT !.twitter_api = None]
    ELSE [c EXCEPT !.twitter_client = None]

\* disconnect, lines 246-258
disconnect(c) ==
    IF c.api_version = "V1"
    THEN [c EXCEPT !.twitter_api = None, !.user_id = None]
    ELSE [c EXCEPT !.twitter_client = None, !.user_id = None]

\* __exit__ that leaves the client as it is
exit_without_disconnect(c) == c

\* __exit__, lines 287-288
exit(c) == disconnect(c)

---------------------------------------------------------------------------
(* The calls legal once connected *)

\* the vendor handle of the configured version
handle(c) == IF c.api_version = "V1" THEN c.twitter_api ELSE c.twitter_client

\* what the vendor answers to a post: None, it raises; Some(t), the new
\* post got identifier t
TweetInputs == {None} \cup {Some(t) : t \in TweetIds}

\* the post made through the V1 call whatever the configured version
post_call_v1_only(c, payload) == VendorCall("update_status", payload, 0)

\* lines 306 and 312: the vendor call that creates the post
post_call(c, payload) ==
    IF c.api_version = "V1"
    THEN VendorCall("update_status", payload, 0)
    ELSE VendorCall("create_tweet", payload, 0)

\* lines 303-314: the post itself, by API version
send_status(c, payload, vin) ==
    IF c.api_version = "V1"
    THEN IF c.twitter_api = None
         THEN Effect(c, Raised("NotConnected"), <<>>, "", 0, {})
         ELSE IF vin = None
              THEN Effect(c, Raised("VendorError"),
                          <<post_call(c, payload)>>, "", 0, {})
              ELSE Effect(c, ReturnedId(Some(V1Status(vin[1], payload).id)),
                          <<post_call(c, payload)>>, "", 0, {})
    ELSE IF c.twitter_client = None
         THEN Effect(c, Raised("NotConnected"), <<>>, "", 0, {})
         ELSE IF vin = None
              THEN Effect(c, Raised("VendorError"),
                          <<post_call(c, payload)>>, "", 0, {})
              ELSE Effect(c, ReturnedId(Some(IntOfStr(V2TweetData(vin[1], payload).id))),
                          <<post_call(c, payload)>>, "", 0, {})

\* tweet() that forgets the suppress_tweeting option
tweet_always_sends(c, payload, vin) ==
    IF c.suppress_connection = TRUE
    THEN Effect(c, ReturnedId(None), <<>>, "", 0, {})
    ELSE send_status(c, payload, vin)

\* tweet() that looks at the connection before the suppress_tweeting option
tweet_connection_first(c, payload, vin) ==
    IF c.suppress_connection = TRUE
    THEN Effect(c, ReturnedId(None), <<>>, "", 0, {})
    ELSE IF handle(c) = None
         THEN Effect(c, Raised("NotConnected"), <<>>, "", 0, {})
         ELSE IF c.suppress_tweeting = FALSE
              THEN send_status(c, payload, vin)
              ELSE Effect(c, ReturnedId(None), <<>>, "", 0, {})

\* tweet, lines 290-321
tweet(c, payload, vin) ==
    IF c.suppress_connection = TRUE
    THEN Effect(c, ReturnedId(None), <<>>, "", 0, {})
    ELSE IF c.suppress_tweeting = FALSE
         THEN send_status(c, payload, vin)
         ELSE Effect(c, ReturnedId(None), <<>>, "", 0, {})

\* the timelines the vendor may hold: at most MaxTweets posts, the most
\* recent (highest identifier) first
Timelines ==
    {tl \in UNION {[1..n -> [id : TweetIds, text : Payloads]] : n \in 0..MaxTweets} :
        \A i \in 1..(Len(tl) - 1) : tl[i].id > tl[i + 1].id}

\* what the vendor answers to a listing: None, it raises; Some(tl), the
\* most recent posts
TimelineInputs(count) ==
    {None} \cup {Some(tl) : tl \in {t \in Timelines : Len(t) <= count}}

\* tweepy.API.user_timeline() -> the list of Status objects
V1Timeline(tl) == [i \in 1..Len(tl) |-> V1Status(tl[i].id, tl[i].text)]

\* tweepy.Client.get_users_tweets() -> Response; its data member is None
\* when the reply carries no post (result_count = 0) and the list of the
\* posts otherwise
V2Timeline(tl) ==
    [data |-> IF Len(tl) = 0 THEN None
              ELSE Some([i \in 1..Len(tl) |-> V2TweetData(tl[i].id, tl[i].text)])]

\* lines 272-274
v1_tweets(twitter_response) ==
    [i \in 1..Len(twitter_response) |->
        Tweet(twitter_response[i].id, twitter_response[i].text)]

\* lines 280-281; the data member is iterated as it is
v2_tweets(twitter_response) ==
    IF twitter_response.data = None
    THEN Raised("TypeError")
    ELSE LET data == twitter_response.data[1]
         IN  ReturnedTweets([i \in 1..Len(data) |->
                                Tweet(IntOfStr(data[i].id), data[i].text)])

\* user_tweets, lines 264-285
user_tweets(c, count, vin) ==
    IF c.api_version = "V1"
    THEN IF c.twitter_api = None
         THEN Effect(c, Raised("NotConnected"), <<>>, "", 0, {})
         ELSE IF vin = None
              THEN Effect(c, Raised("VendorError"),
                          <<VendorCall("user_timeline", "", count)>>, "", 0, {})
              ELSE Effect(c, ReturnedTweets(v1_tweets(V1Timeline(vin[1]))),
                          <<VendorCall("user_timeline", "", count)>>, "", 0, {})
    ELSE IF c.twitter_client = None
         THEN Effect(c, Raised("NotConnected"), <<>>, "", 0, {})
         ELSE IF vin = None
              THEN Effect(c, Raised("VendorError"),
                          <<VendorUserCall("get_users_tweets", count, c.user_id)>>,
                          "", 0, {})
              ELSE Effect(c, v2_tweets(V2Timeline(vin[1])),
                          <<VendorUserCall("get_users_tweets", count, c.user_id)>>,
                          "", 0, {})

\* what the vendor answers to a delete: None, it raises; Some(t), it
\* reports post t as the one deleted
DestroyInputs == {None} \cup {Some(t) : t \in TweetIds}

\* tweepy.API.destroy_status() -> the Status that was destroyed
V1Destroyed(t) == [id |-> t]
\* tweepy.Client.delete_tweet(id) -> Response with data['deleted']
V2Deleted(t, tweet_id) == [data |-> [deleted |-> (t = tweet_id)]]

\* line 332: the status returned is the one asked for
v1_delete_confirmed(status, tweet_id) == status.id = tweet_id

\* the V2 response taken as a confirmation whatever it says
v2_delete_unchecked(response) == TRUE

\* line 339: the response says deleted
v2_delete_confirmed(response) == response.data.deleted = TRUE

\* destroy_tweet, lines 323-343
destroy_tweet(c, tweet_id, vin) ==
    IF c.api_version = "V1"
    THEN IF c.twitter_api = None
         THEN Effect(c, Raised("NotConnected"), <<>>, "", 0, {})
         ELSE IF vin = None
              THEN Effect(c, Raised("VendorError"),
                          <<VendorCall("destroy_status", "", tweet_id)>>, "", 0, {})
              ELSE IF ~v1_delete_confirmed(V1Destroyed(vin[1]), tweet_id)
                   THEN Effect(c, Raised("DeleteFailed"),
                               <<VendorCall("destroy_status", "", tweet_id)>>, "", 0, {})
                   ELSE Effect(c, Returned,
                               <<VendorCall("destroy_status", "", tweet_id)>>, "", 0, {})
    ELSE IF c.twitter_client = None
         THEN Effect(c, Raised("NotConnected"), <<>>, "", 0, {})
         ELSE IF vin = None
              THEN Effect(c, Raised("VendorError"),
                          <<VendorCall("delete_tweet", "", tweet_id)>>, "", 0, {})
              ELSE IF ~v2_delete_confirmed(V2Deleted(vin[1], tweet_id))
                   THEN Effect(c, Raised("DeleteFailed"),
                               <<VendorCall("delete_tweet", "", tweet_id)>>, "", 0, {})
                   ELSE Effect(c, Returned,
                               <<VendorCall("delete_tweet", "", tweet_id)>>, "", 0, {})

---------------------------------------------------------------------------
(* The state machine: one client and its caller *)

\* the key directory and the environment the process runs in; what connect()
\* never looks at is not varied: the environment when the consumer file
\* exists, the access file when the consumer file is absent or unreadable
FileSystems ==
    {f \in [consumer_file : {"absent", "ok", "malformed"},
            access_file : {"absent", "file"},
            env : Environments] :
        /\ f.consumer_file # "absent" => f.env = EnvNameSet
        /\ f.consumer_file # "ok" => f.access_file = "absent"}

Clients ==
    {TweepyWrapper(v, st, sc, g) :
        v \in TwitterAPIVersion, st \in BOOLEAN, sc \in BOOLEAN, g \in BOOLEAN}

NoInput == [auth_url_ok |-> TRUE, pin_ok |-> TRUE, confirm |-> "Y", verify |-> None]

\* the record of a call: the method, its arguments, the object before it,
\* what the vendor and the operator answered and what the caller saw
Call(op, prev, payload, num, pre, f, inp, vin_id, vin_tl, e) ==
    [op |-> op, prev |-> prev, payload |-> payload, num |-> num, pre |-> pre, fs |-> f,
     inp |-> inp, vin_id |-> vin_id, vin_tl |-> vin_tl,
     res |-> e.res, calls |-> e.calls, writes |-> e.writes, reads |-> e.reads]

NoCall(c, f) ==
    Call("__init__", "", "", 0, c, f, NoInput, None, None, Effect(c, Returned, <<>>, "", 0, {}))

\* answers nobody asks for are not enumerated
Asked(c, f, inp) ==
    /\ (c.suppress_connection \/ resolve_keys(c, f).err # "")
          => inp = NoInput
    /\ ~c.generate_access_token
          => (inp.auth_url_ok /\ inp.pin_ok /\ inp.confirm = "Y")
    /\ (c.generate_access_token /\ (~inp.auth_url_ok \/ ~inp.pin_ok))
          => (inp.confirm = "Y" /\ inp.verify = None /\ (~inp.auth_url_ok => inp.pin_ok))
    /\ (c.generate_access_token /\ f.access_file = "absent") => inp.confirm = "Y"
    /\ (c.generate_access_token /\ inp.confirm = "X") => inp.verify = None

\* an exception raised inside a with-block unwinds it
PcAfter(res) == IF pc = "body" /\ res.status = "raise" THEN "unwinding" ELSE pc

\* a V1 and a V2 client built with the same options, each in its own copy
\* of the same key directory and environment
Pair(st, sc, g, f) ==
    [v1 |-> TweepyWrapper("V1", st, sc, g), v2 |-> TweepyWrapper("V2", st, sc, g),
     f1 |-> f, f2 |-> f]

\* the last call made on both and what each caller saw
PairCall(op, num, o1, o2) == [op |-> op, num |-> num, o1 |-> o1, o2 |-> o2]

NoPair ==
    Pair(FALSE, FALSE, FALSE,
         [consumer_file |-> "ok", access_file |-> "file", env |-> EnvNameSet])
NoPairCall == PairCall("__init__", 0, Returned, Returned)

Init ==
    /\ client \in Clients
    /\ fs \in FileSystems
    /\ pc = "idle"
    /\ last = NoCall(client, fs)
    /\ connected_since = FALSE
    /\ pair = NoPair
    /\ pair_last = NoPairCall
    /\ api = None /\ api_last = None
    /\ game = None /\ msg = None

Connect ==
    /\ pc = "idle"
    /\ \E inp \in ConnectInputs :
        /\ Asked(client, fs, inp)
        /\ LET e == connect(client, fs, inp)
           IN  /\ client' = e.c
               /\ fs' = [fs EXCEPT !.access_file = e.access_file]
               /\ last' = Call("connect", last.op, "", 0, client, fs, inp, None, None, e)
               /\ connected_since' = (connected_since \/ e.res.status = "ok")
    /\ UNCHANGED <<pc, pair, pair_last, colour_vars, game_vars>>

Disconnect ==
    /\ pc = "idle"
    /\ client' = disconnect(client)
    /\ last' = Call("disconnect", last.op, "", 0, client, fs, NoInput, None, None,
                    Effect(client', Returned, <<>>, "", 0, {}))
    /\ connected_since' = FALSE
    /\ UNCHANGED <<fs, pc, pair, pair_last, colour_vars, game_vars>>

TweetCall ==
    /\ pc \in {"idle", "body"}
    /\ \E payload \in Payloads, vin \in TweetInputs :
        LET e == tweet(client, payload, vin)
        IN  /\ (e.calls = <<>> => vin = None)
            /\ client' = e.c
            /\ last' = Call("tweet", last.op, payload, 0, client, fs, NoInput, vin, None, e)
            /\ pc' = PcAfter(e.res)
    /\ UNCHANGED <<fs, connected_since, pair, pair_last, colour_vars, game_vars>>

UserTweetsCall ==
    /\ pc \in {"idle", "body"}
    /\ \E count \in Counts : \E vin \in TimelineInputs(count) :
        LET e == user_tweets(client, count, vin)
        IN  /\ (e.calls = <<>> => vin = None)
            /\ client' = e.c
            /\ last' = Call("user_tweets", last.op, "", count, client, fs, NoInput, None, vin, e)
            /\ pc' = PcAfter(e.res)
    /\ UNCHANGED <<fs, connected_since, pair, pair_last, colour_vars, game_vars>>

DestroyTweetCall ==
    /\ pc \in {"idle", "body"}
    /\ \E tweet_id \in TweetIds, vin \in DestroyInputs :
        LET e == destroy_tweet(client, tweet_id, vin)
        IN  /\ (e.calls = <<>> => vin = None)
            /\ client' = e.c
            /\ last' = Call("destroy_tweet", last.op, "", tweet_id, client, fs, NoInput, vin, None, e)
            /\ pc' = PcAfter(e.res)
    /\ UNCHANGED <<fs, connected_since, pair, pair_last, colour_vars, game_vars>>

\* __enter__, lines 260-262: the body runs only if connect() returns
Enter ==
    /\ pc = "idle"
    /\ \E inp \in ConnectInputs :
        /\ Asked(client, fs, inp)
        /\ LET e == enter(client, fs, inp)
           IN  /\ client' = e.c
               /\ fs' = [fs EXCEPT !.access_file = e.access_file]
               /\ last' = Call("__enter__", last.op, "", 0, client, fs, inp, None, None, e)
               /\ connected_since' = (connected_since \/ e.res.status = "ok")
               /\ pc' = IF e.res.status = "ok" THEN "body" ELSE "idle"
    /\ UNCHANGED <<pair, pair_last, colour_vars, game_vars>>

\* the body of the with-block raises by itself
BodyRaises ==
    /\ pc = "body"
    /\ pc' = "unwinding"
    /\ UNCHANGED <<client, fs, last, connected_since, pair, pair_last, colour_vars, game_vars>>

\* __exit__, lines 287-288: runs when the body ends, normally (num = 0) or
\* by an exception (num = 1), which it does not swallow
Exit ==
    /\ pc \in {"body", "unwinding"}
    /\ client' = exit(client)
    /\ last' = Call("__exit__", last.op, "", IF pc = "unwinding" THEN 1 ELSE 0, client, fs,
                    NoInput, None, None, Effect(client', Returned, <<>>, "", 0, {}))
    /\ connected_since' = FALSE
    /\ pc' = "idle"
    /\ UNCHANGED <<fs, pair, pair_last, colour_vars, game_vars>>

Next ==
    \/ Connect
    \/ Disconnect
    \/ TweetCall
    \/ UserTweetsCall
    \/ DestroyTweetCall
    \/ Enter
    \/ BodyRaises
    \/ Exit

Spec == Init /\ [][Next]_vars

---------------------------------------------------------------------------
(* A V1 and a V2 client given the same calls and the same vendor answers *)

InitPair ==
    /\ client = TweepyWrapper("V1", FALSE, FALSE, FALSE)
    /\ fs = NoPair.f1
    /\ pc = "idle"
    /\ last = NoCall(client, fs)
    /\ connected_since = FALSE
    /\ pair \in {Pair(st, sc, g, f) :
                    st \in BOOLEAN, sc \in BOOLEAN, g \in BOOLEAN, f \in FileSystems}
    /\ pair_last = NoPairCall
    /\ api = None /\ api_last = None
    /\ game = None /\ msg = None

PairConnect ==
    /\ \E inp \in ConnectInputs :
        /\ Asked(pair.v1, pair.f1, inp)
        /\ LET e1 == connect(pair.v1, pair.f1, inp)
               e2 == connect(pair.v2, pair.f2, inp)
           IN  /\ pair' = [v1 |-> e1.c, v2 |-> e2.c,
                           f1 |-> [pair.f1 EXCEPT !.access_file = e1.access_file],
                           f2 |-> [pair.f2 EXCEPT !.access_file = e2.access_file]]
               /\ pair_last' = PairCall("connect", 0, e1.res, e2.res)
    /\ UNCHANGED <<client, fs, pc, last, connected_since, colour_vars, game_vars>>

PairDisconnect ==
    /\ pair' = [pair EXCEPT !.v1 = disconnect(pair.v1), !.v2 = disconnect(pair.v2)]
    /\ pair_last' = PairCall("disconnect", 0, Returned, Returned)
    /\ UNCHANGED <<client, fs, pc, last, connected_since, colour_vars, game_vars>>

PairTweet ==
    /\ \E payload \in Payloads, vin \in TweetInputs :
        LET e1 == tweet(pair.v1, payload, vin)
            e2 == tweet(pair.v2, payload, vin)
        IN  /\ pair' = [pair EXCEPT !.v1 = e1.c, !.v2 = e2.c]
            /\ pair_last' = PairCall("tweet", 0, e1.res, e2.res)
    /\ UNCHANGED <<client, fs, pc, last, connected_since, colour_vars, game_vars>>

PairUserTweets ==
    /\ \E count \in Counts : \E vin \in TimelineInputs(count) :
        LET e1 == user_tweets(pair.v1, count, vin)
            e2 == user_tweets(pair.v2, count, vin)
        IN  /\ pair' = [pair EXCEPT !.v1 = e1.c, !.v2 = e2.c]
            /\ pair_last' = PairCall("user_tweets", count, e1.res, e2.res)
    /\ UNCHANGED <<client, fs, pc, last, connected_since, colour_vars, game_vars>>

PairDestroyTweet ==
    /\ \E tweet_id \in TweetIds, vin \in DestroyInputs :
        LET e1 == destroy_tweet(pair.v1, tweet_id, vin)
            e2 == destroy_tweet(pair.v2, tweet_id, vin)
        IN  /\ pair' = [pair EXCEPT !.v1 = e1.c, !.v2 = e2.c]
            /\ pair_last' = PairCall("destroy_tweet", tweet_id, e1.res, e2.res)
    /\ UNCHANGED <<client, fs, pc, last, connected_since, colour_vars, game_vars>>

NextPair ==
    \/ PairConnect
    \/ PairDisconnect
    \/ PairTweet
    \/ PairUserTweets
    \/ PairDestroyTweet

SpecPair == InitPair /\ [][NextPair]_vars

---------------------------------------------------------------------------
(* Python str: a sequence of one-character strings *)

LowerCase == <<"a", "b", "c", "d", "e", "f", "g", "h", "i", "j", "k", "l", "m", "n", "o", "p", "q", "r", "s", "t", "u", "v", "w", "x", "y", "z">>
UpperCase == <<"A", "B", "C", "D", "E", "F", "G", "H", "I", "J", "K", "L", "M", "N", "O", "P", "Q", "R", "S", "T", "U", "V", "W", "X", "Y", "Z">>
Digits == <<"0", "1", "2", "3", "4", "5", "6", "7", "8", "9">>

\* str.upper() and str.lower(), character by character
upper_char(ch) ==
    IF \E i \in 1..Len(LowerCase) : LowerCase[i] = ch
    THEN UpperCase[CHOOSE i \in 1..Len(LowerCase) : LowerCase[i] = ch]
    ELSE ch
lower_char(ch) ==
    IF \E i \in 1..Len(UpperCase) : UpperCase[i] = ch
    THEN LowerCase[CHOOSE i \in 1..Len(UpperCase) : UpperCase[i] = ch]
    ELSE ch
upper(s) == [i \in 1..Len(s) |-> upper_char(s[i])]
lower(s) == [i \in 1..Len(s) |-> lower_char(s[i])]

\* str(n) of a non negative integer, as characters
str_of_int(n) == [i \in 1..Len(StrOfInt(n)) |-> Digits[StrOfInt(n)[i] + 1]]

\* the number of places where the string sub starts in the string s
occurrences(sub, s) ==
    Cardinality({i \in 1..(Len(s) - Len(sub) + 1) :
                    SubSeq(s, i, i + Len(sub) - 1) = sub})

(* Python values of the types that reach the colour client: a member of    *)
(* the enum (its name and its integer value), a str, an int, bytes, None.  *)
PyValue(type, text, value) == [type |-> type, text |-> text, value |-> value]
PyStr(t) == PyValue("str", t, 0)
PyInt(n) == PyValue("int", <<>>, n)
PyBytes(t) == PyValue("bytes", t, 0)
PyNone == PyValue("NoneType", <<>>, 0)

---------------------------------------------------------------------------
(* The enum CheerLightColours, lines 20-34, in the order of declaration *)

CheerLightColours ==
    <<[name |-> <<"R", "E", "D">>, value |-> 16711680],
      [name |-> <<"G", "R", "E", "E", "N">>, value |-> 32768],
      [name |-> <<"B", "L", "U", "E">>, value |-> 255],
      [name |-> <<"C", "Y", "A", "N">>, value |-> 65535],
      [name |-> <<"W", "H", "I", "T", "E">>, value |-> 16777215],
      [name |-> <<"O", "L", "D", "L", "A", "C", "E">>, value |-> 16643558],
      [name |-> <<"P", "U", "R", "P", "L", "E">>, value |-> 8388736],
      [name |-> <<"M", "A", "G", "E", "N", "T", "A">>, value |-> 16711935],
      [name |-> <<"Y", "E", "L", "L", "O", "W">>, value |-> 16776960],
      [name |-> <<"O", "R", "A", "N", "G", "E">>, value |-> 16753920],
      [name |-> <<"P", "I", "N", "K">>, value |-> 16761035]>>

PyColour(i) ==
    PyValue("CheerLightColours", CheerLightColours[i].name, CheerLightColours[i].value)

\* CheerLightColours.__members__: the names of the enum
members == {CheerLightColours[i].name : i \in 1..Len(CheerLightColours)}

---------------------------------------------------------------------------
(* CheerLightTwitterAPI: colour validation and the payload of a post *)

\* verify_colour that also takes an int that is the value of a colour
verify_colour_by_value(colour) ==
    IF colour.type = "int"
    THEN IF \E i \in 1..Len(CheerLightColours) : CheerLightColours[i].value = colour.value
         THEN "" ELSE "TypeError"
    ELSE IF colour.type \notin {"CheerLightColours", "str"}
         THEN "TypeError"
         ELSE IF colour.type = "str" /\ upper(colour.text) \notin members
              THEN "ValueError"
              ELSE ""

\* verify_colour, lines 88-102: the exception it raises, "" when it returns
verify_colour(colour) ==
    IF colour.type \notin {"CheerLightColours", "str"}
    THEN "TypeError"
    ELSE IF colour.type = "str" /\ upper(colour.text) \notin members
         THEN "ValueError"
         ELSE ""

(* A jinja context: a dict from variable names to values.  It is a function *)
(* on the names any template or caller of the model uses; None marks a name *)
(* the dict has no entry for.                                               *)
ContextKeys == {"colour", "user", "other_user", "current_score", "user_name"}
EmptyContext == [k \in ContextKeys |-> None]
Context(colour, user, other_user) ==
    [EmptyContext EXCEPT !["colour"] = colour, !["user"] = user,
                         !["other_user"] = other_user]

\* dict.update with the two layers taken in the wrong order
update_keeps_old(a, b) == [k \in ContextKeys |-> IF a[k] # None THEN a[k] ELSE b[k]]

\* a.update(b)
update(a, b) == [k \in ContextKeys |-> IF b[k] # None THEN b[k] ELSE a[k]]

(* A template: literal text and references {{ name }} to context variables *)
Lit(text) == [var |-> "", text |-> text]
Var(name) == [var |-> name, text |-> <<>>]

\* templates/tweet.jinja of the package and the tweet.jinja of the three
\* template directories of the tests
Templates ==
    [default |-> <<Lit(<<"@", "c", "h", "e", "e", "r", "l", "i", "g", "h", "t", "s", " ">>), Var("colour")>>,
     custom_template_static_context |->
        <<Lit(<<"@", "c", "h", "e", "e", "r", "l", "i", "g", "h", "t", "s", " ">>), Var("colour"), Lit(<<" ", "f", "r", "o", "m", " ">>), Var("user")>>,
     custom_template_dynamic_context |->
        <<Lit(<<"@", "c", "h", "e", "e", "r", "l", "i", "g", "h", "t", "s", " ">>), Var("colour"), Lit(<<" ", "t", "o", " ">>), Var("other_user")>>,
     custom_template_dynamic_and_static_context |->
        <<Lit(<<"@", "c", "h", "e", "e", "r", "l", "i", "g", "h", "t", "s", " ">>), Var("colour"), Lit(<<" ", "f", "r", "o", "m", " ">>), Var("user"),
          Lit(<<" ", "t", "o", " ">>), Var("other_user")>>]

TemplateDirs == DOMAIN Templates \ {"default"}

\* the names a template refers to
references(template) ==
    {template[i].var : i \in 1..Len(template)} \ {""}

\* what rendering gives: the exception raised ("" if none) and the text
Rendered(err, text) == [err |-> err, text |-> text]

\* how jinja prints a value: str(value)
to_text(v) == IF v.type = "int" THEN str_of_int(v.value) ELSE v.text

\* Template.render under jinja's default Undefined, which prints as ''
RECURSIVE render_lenient(_, _)
render_lenient(template, context) ==
    IF template = <<>> THEN Rendered("", <<>>)
    ELSE LET part == Head(template)
             rest == render_lenient(Tail(template), context)
         IN  IF part.var = "" THEN Rendered("", part.text \o rest.text)
             ELSE IF context[part.var] = None THEN rest
                  ELSE Rendered("", to_text(context[part.var][1]) \o rest.text)

\* Template.render under undefined=StrictUndefined, lines 81-84 and 133
RECURSIVE render(_, _)
render(template, context) ==
    IF template = <<>> THEN Rendered("", <<>>)
    ELSE LET part == Head(template)
             rest == render(Tail(template), context)
         IN  IF part.var # "" /\ context[part.var] = None
             THEN Rendered("UndefinedError", <<>>)
             ELSE IF rest.err # "" THEN rest
                  ELSE Rendered("", (IF part.var = "" THEN part.text
                                     ELSE to_text(context[part.var][1])) \o rest.text)

\* CheerLightTwitterAPI.__init__, lines 46-86; user_template_dir "" is None
CheerLightTwitterAPI(user_template_dir, user_template_context, suppress_tweeting, suppress_connection) ==
    [base |-> TweepyWrapper("V1", suppress_tweeting, suppress_connection, FALSE),
     user_template_dir |-> user_template_dir,
     user_template_context |-> user_template_context]

\* jj_env.get_template("tweet.jinja"), lines 65-79 and 131: the directory of
\* the user comes first in the ChoiceLoader
get_template(a) ==
    IF a.user_template_dir = "" THEN Templates.default
    ELSE Templates[a.user_template_dir]

\* the context of a call with the name of the member as the enum spells it
template_context_enum_name(a, colour, jinja_context) ==
    LET context == update(Context(Some(PyStr(colour.text)), None, None),
                          a.user_template_context)
    IN  IF jinja_context # None THEN update(context, jinja_context[1]) ELSE context

\* lines 118-130: the context of one call, jinja_context is an Optional
template_context(a, colour, jinja_context) ==
    LET colour_str == IF colour.type = "str" THEN colour.text ELSE lower(colour.text)
        context == update(Context(Some(PyStr(colour_str)), None, None),
                          a.user_template_context)
    IN  IF jinja_context # None THEN update(context, jinja_context[1]) ELSE context

\* what tweet_payload gives: the exception raised ("" if none), the payload
\* and the context it handed to the template
Payload(err, text, context) == [err |-> err, text |-> text, context |-> context]

\* a tweet_payload that wants the posting client connected
tweet_payload_connected_only(a, colour, jinja_context) ==
    IF handle(a.base) = None
    THEN Payload("NotConnected", <<>>, EmptyContext)
    ELSE IF verify_colour(colour) # ""
         THEN Payload(verify_colour(colour), <<>>, EmptyContext)
         ELSE LET context == template_context(a, colour, jinja_context)
                  tweet_content == render(get_template(a), context)
              IN  Payload(tweet_content.err, tweet_content.text, context)

\* tweet_payload, lines 104-135
tweet_payload(a, colour, jinja_context) ==
    IF verify_colour(colour) # ""
    THEN Payload(verify_colour(colour), <<>>, EmptyContext)
    ELSE LET context == template_context(a, colour, jinja_context)
             tweet_content == render(get_template(a), context)
         IN  Payload(tweet_content.err, tweet_content.text, context)

\* the object after a tweet_payload that merges the contexts in the dict of
\* the object (context = self.__user_template_context)
object_after_payload_shared_dict(a, colour, jinja_context) ==
    IF verify_colour(colour) # "" THEN a
    ELSE [a EXCEPT !.user_template_context = template_context(a, colour, jinja_context)]

\* the object after tweet_payload, lines 125-130: the contexts are merged in
\* a dict of the call, user_template_context of the object is only read
object_after_payload(a, colour, jinja_context) == a

\* what tweet gives: the object afterwards, the payload, the outcome for the
\* caller and the vendor calls
ColourEffect(a, payload, res, calls) ==
    [a |-> a, payload |-> payload, res |-> res, calls |-> calls]

\* CheerLightTwitterAPI.tweet, lines 137-154
colour_tweet(a, colour, jinja_context, vin) ==
    IF verify_colour(colour) # ""
    THEN ColourEffect(a, Payload(verify_colour(colour), <<>>, EmptyContext),
                      Raised(verify_colour(colour)), <<>>)
    ELSE LET tweet_content == tweet_payload(a, colour, jinja_context)
             a1 == object_after_payload(a, colour, jinja_context)
         IN  IF tweet_content.err # ""
             THEN ColourEffect(a1, tweet_content, Raised(tweet_content.err), <<>>)
             ELSE LET e == tweet(a1.base, tweet_content.text, vin)
                  IN  ColourEffect([a1 EXCEPT !.base = e.c], tweet_content, e.res, e.calls)

---------------------------------------------------------------------------
(* The state machine of one CheerLightTwitterAPI object and a caller that  *)
(* passes one colour and one jinja_context to the methods it calls.        *)

\* str.capitalize()
capitalize(s) == [i \in 1..Len(s) |-> IF i = 1 THEN upper_char(s[i]) ELSE lower_char(s[i])]

\* the colour arguments tried: every member of the enum, every name in lower
\* case, in upper case and capitalised, strings that are no name, integers
\* (the value of WHITE, the value of BLUE, 0), bytes and None
ColourArguments ==
    {PyColour(i) : i \in 1..Len(CheerLightColours)}
    \cup {PyStr(lower(n)) : n \in members}
    \cup {PyStr(n) : n \in members}
    \cup {PyStr(capitalize(n)) : n \in members}
    \cup {PyStr(<<"d", "a", "r", "k", "b", "l", "u", "e">>), PyStr(<<>>), PyStr(<<"r", "e">>), PyStr(<<"r", "e", "d", "s">>),
          PyStr(<<" ", "r", "e", "d">>)}
    \cup {PyInt(CheerLightColours[5].value), PyInt(CheerLightColours[3].value), PyInt(0)}
    \cup {PyBytes(CheerLightColours[1].name), PyNone}

\* user_template_context of the object: none, that of the tests, one that
\* also has a colour of its own
UserTemplateContexts ==
    {EmptyContext,
     Context(None, Some(PyStr(<<"B", "o", "b">>)), None),
     Context(Some(PyStr(<<"p", "i", "n", "k">>)), Some(PyStr(<<"B", "o", "b">>)), None)}

\* jinja_context of a call: not given, empty, those of the tests, one that
\* has a colour and a user of its own
JinjaContexts ==
    {None, Some(EmptyContext),
     Some(Context(None, None, Some(PyStr(<<"A", "l", "i", "c", "e">>)))),
     Some(Context(None, None, Some(PyInt(99)))),
     Some(Context(Some(PyStr(<<"b", "l", "u", "e">>)), Some(PyStr(<<"E", "v", "e">>)), None))}

\* the arguments of the caller: every colour without a jinja_context, and
\* every jinja_context with ORANGE, 'orange', 'MAGENTA', 'darkblue' and the
\* integer value of WHITE
Arguments ==
    {<<colour, None>> : colour \in ColourArguments}
    \cup ({PyColour(10), PyStr(lower(CheerLightColours[10].name)),
           PyStr(CheerLightColours[8].name), PyStr(<<"d", "a", "r", "k", "b", "l", "u", "e">>),
           PyInt(CheerLightColours[5].value)} \X JinjaContexts)

\* the key directory of the object: both files are there
KeyPath == [consumer_file |-> "ok", access_file |-> "file", env |-> EnvNameSet]

NoPayload == Payload("", <<>>, EmptyContext)

\* the record of a call: the method, the arguments of the caller, the
\* object before the call, the payload, what the caller saw, the vendor
\* calls; again tells that the call before it was the same method, before
\* is the payload of that call
ColourCall(op, vin, payload, res, calls) ==
    [op |-> op, colour |-> api_last.colour, jinja_context |-> api_last.jinja_context,
     vin |-> vin, pre |-> api, payload |-> payload, res |-> res, calls |-> calls,
     again |-> (api_last.op = op),
     before |-> IF api_last.op = op THEN api_last.payload ELSE NoPayload]

InitColour ==
    /\ client = TweepyWrapper("V1", FALSE, FALSE, FALSE)
    /\ fs = KeyPath
    /\ pc = "idle"
    /\ last = NoCall(client, fs)
    /\ connected_since = FALSE
    /\ pair = NoPair
    /\ pair_last = NoPairCall
    /\ api \in {CheerLightTwitterAPI(dir, ctx, st, sc) :
                    dir \in {""} \cup TemplateDirs, ctx \in UserTemplateContexts,
                    st \in BOOLEAN, sc \in BOOLEAN}
    /\ \E args \in Arguments :
        api_last = [op |-> "__init__", colour |-> args[1], jinja_context |-> args[2],
                    vin |-> None, pre |-> api, payload |-> NoPayload,
                    res |-> Returned, calls |-> <<>>, again |-> FALSE,
                    before |-> NoPayload]
    /\ game = None /\ msg = None

\* connect() inherited from TweepyWrapper
ColourConnect ==
    /\ \E verify \in {None, Some(MaxUserId)} :
        LET e == connect(api.base, KeyPath, [NoInput EXCEPT !.verify = verify])
        IN  /\ api' = [api EXCEPT !.base = e.c]
            /\ api_last' = ColourCall("connect", None, NoPayload, e.res, e.calls)
    /\ UNCHANGED <<client, fs, pc, last, connected_since, pair, pair_last, game_vars>>

\* disconnect() inherited from TweepyWrapper
ColourDisconnect ==
    /\ api' = [api EXCEPT !.base = disconnect(api.base)]
    /\ api_last' = ColourCall("disconnect", None, NoPayload, Returned, <<>>)
    /\ UNCHANGED <<client, fs, pc, last, connected_since, pair, pair_last, game_vars>>

VerifyColour ==
    /\ LET err == verify_colour(api_last.colour)
       IN  api_last' = ColourCall("verify_colour", None, Payload(err, <<>>, EmptyContext),
                                  IF err = "" THEN Returned ELSE Raised(err), <<>>)
    /\ UNCHANGED <<client, fs, pc, last, connected_since, pair, pair_last,
                   api, game_vars>>

TweetPayload ==
    /\ LET p == tweet_payload(api, api_last.colour, api_last.jinja_context)
       IN  api_last' = ColourCall("tweet_payload", None, p,
                                  IF p.err = "" THEN Returned ELSE Raised(p.err), <<>>)
    /\ api' = object_after_payload(api, api_last.colour, api_last.jinja_context)
    /\ UNCHANGED <<client, fs, pc, last, connected_since, pair, pair_last, game_vars>>

\* the jinja_context of the test with {'other_user': 'Alice'}
Alice == Some(Context(None, None, Some(PyStr(<<"A", "l", "i", "c", "e">>))))

\* tweet_payload called by a caller who passed {'other_user': 'Alice'} to
\* the call before, now without jinja_context or with another one; before
\* is the payload of that call, again is left FALSE as the arguments differ
TweetPayloadOtherContext ==
    /\ api_last.op = "tweet_payload"
    /\ api_last.jinja_context = Alice
    /\ \E jinja_context \in JinjaContexts \ {Alice} :
        LET p == tweet_payload(api, api_last.colour, jinja_context)
        IN  /\ api_last' = [ColourCall("tweet_payload", None, p,
                                       IF p.err = "" THEN Returned ELSE Raised(p.err),
                                       <<>>)
                               EXCEPT !.jinja_context = jinja_context,
                                      !.again = FALSE]
            /\ api' = object_after_payload(api, api_last.colour, jinja_context)
    /\ UNCHANGED <<client, fs, pc, last, connected_since, pair, pair_last, game_vars>>

ColourTweet ==
    /\ \E vin \in {None, Some(MaxTweetId)} :
        LET e == colour_tweet(api, api_last.colour, api_last.jinja_context, vin)
        IN  /\ (e.calls = <<>> => vin = None)
            /\ api' = e.a
            /\ api_last' = ColourCall("tweet", vin, e.payload, e.res, e.calls)
    /\ UNCHANGED <<client, fs, pc, last, connected_since, pair, pair_last, game_vars>>

NextColour ==
    \/ ColourConnect
    \/ ColourDisconnect
    \/ VerifyColour
    \/ TweetPayload
    \/ TweetPayloadOtherContext
    \/ ColourTweet

SpecColour == InitColour /\ [][NextColour]_vars

---------------------------------------------------------------------------
(* CornHoleTweeter: what on_message does with the topic and the payload *)

starts_with(s, prefix) ==
    Len(s) >= Len(prefix) /\ SubSeq(s, 1, Len(prefix)) = prefix

\* s without its first n characters
drop(s, n) == SubSeq(s, n + 1, Len(s))

is_digit(ch) == \E i \in 1..Len(Digits) : Digits[i] = ch

\* the length of the longest run of digits that s starts with: what \d+
\* takes when the pattern goes on with a character that is no digit
digits_run(s) ==
    CHOOSE n \in 0..Len(s) :
        /\ \A i \in 1..n : is_digit(s[i])
        /\ n < Len(s) => ~is_digit(s[n + 1])

\* re.match(r'holes/(\d+)/<leaf>', topic): Some(group), None when the topic
\* does not start with the pattern; what follows the pattern is not looked at
match_hole(topic, leaf) ==
    IF ~starts_with(topic, <<"h", "o", "l", "e", "s", "/">>) THEN None
    ELSE LET rest == drop(topic, Len(<<"h", "o", "l", "e", "s", "/">>))
         IN  IF digits_run(rest) > 0
                  /\ starts_with(drop(rest, digits_run(rest)), <<"/">> \o leaf)
             THEN Some(SubSeq(rest, 1, digits_run(rest)))
             ELSE None

\* re.match(r'game/<leaf>', topic) is not None
match_game(topic, leaf) == starts_with(topic, <<"g", "a", "m", "e", "/">> \o leaf)

\* int(s) of a string of decimal digits
int_of_text(s) ==
    IntOfStr([i \in 1..Len(s) |-> (CHOOSE d \in 1..Len(Digits) : Digits[d] = s[i]) - 1])

\* int(s) of a payload: Some(value), None when int() raises ValueError
py_int(s) ==
    IF Len(s) > 0 /\ \A i \in 1..Len(s) : is_digit(s[i])
    THEN Some(int_of_text(s))
    ELSE None

\* range(n)
range(n) == 0..(n - 1)

\* the dataclass HoleState, lines 22-25; a colour held by the object is kept
\* as the position of the member in CheerLightColours
HoleState(state, colour) == [state |-> state, colour |-> colour]

\* CornHoleTweeter.__init__, lines 39-65.  loop tells that the network loop
\* of the MQTT client runs, connecting that connect() has started it and
\* has not yet returned from the connect() of the posting client.
CornHoleTweeter(api_version, suppress_tweeting, suppress_connection) ==
    [base |-> TweepyWrapper(api_version, suppress_tweeting, suppress_connection, FALSE),
     user_template_dir |-> "cornhole_templates",
     user_template_context |-> EmptyContext,
     hole_state |-> [x \in range(6) |-> HoleState(FALSE, 1)],
     next_score_tweet_colour |-> None,
     current_username |-> <<>>,
     loop |-> FALSE,
     connecting |-> FALSE]

\* tweet.jinja and end_game.jinja of the directory cornhole_templates
CornholeTemplates ==
    [tweet |-> <<Lit(<<"@", "c", "h", "e", "e", "r", "l", "i", "g", "h", "t", "s", " ">>), Var("colour"), Lit(<<" ", "h", "i", "t", " ", "b", "y", " ">>), Var("user_name"),
                 Lit(<<" ", "s", "c", "o", "r", "e", " ">>), Var("current_score")>>,
     end_game |-> <<Lit(<<"g", "a", "m", "e", " ", "o", "v", "e", "r", " ", "f", "o", "r", " ">>), Var("user_name"), Lit(<<" ", "s", "c", "o", "r", "e", " ">>),
                    Var("current_score")>>]

\* the jinja_context of hit_tweet and endgame_tweet, lines 204 and 222-223
score_context(g, score) ==
    [EmptyContext EXCEPT !["current_score"] = Some(PyInt(score)),
                         !["user_name"] = Some(PyStr(g.current_username))]

\* colour_template_payload(colour, jinja_context): the payload of a colour
\* post from the tweet.jinja of the object
colour_template_payload(g, colour, jinja_context) ==
    IF verify_colour(colour) # ""
    THEN Payload(verify_colour(colour), <<>>, EmptyContext)
    ELSE LET context == template_context(g, colour, jinja_context)
             tweet_content == render(CornholeTemplates.tweet, context)
         IN  Payload(tweet_content.err, tweet_content.text, context)

\* template_payload(jinja_template, jinja_context): the payload of a post
\* from the named template
template_payload(g, jinja_template, jinja_context) ==
    LET context == IF jinja_context # None
                   THEN update(update(EmptyContext, g.user_template_context),
                               jinja_context[1])
                   ELSE update(EmptyContext, g.user_template_context)
        tweet_content == render(CornholeTemplates[jinja_template], context)
    IN  Payload(tweet_content.err, tweet_content.text, context)

\* a payload handed to tweet(), with what it was rendered from
Post(kind, colour, score, user_name, text) ==
    [kind |-> kind, colour |-> colour, score |-> score, user_name |-> user_name,
     text |-> text]

\* what handling a message yields: the object afterwards, the outcome of
\* the callback, the payloads handed to tweet() and the vendor calls
Handled(g, res, posts, calls) == [g |-> g, res |-> res, posts |-> posts, calls |-> calls]

\* hit_tweet, lines 211-227
hit_tweet(g, score, colour, vin) ==
    LET tweet_content == colour_template_payload(g, PyColour(colour),
                                                 Some(score_context(g, score)))
    IN  IF tweet_content.err # ""
        THEN Handled(g, Raised(tweet_content.err), <<>>, <<>>)
        ELSE LET e == tweet(g.base, tweet_content.text, vin)
             IN  Handled([g EXCEPT !.base = e.c], e.res,
                         <<Post("hit", Some(colour), score, g.current_username,
                                tweet_content.text)>>, e.calls)

\* endgame_tweet, lines 194-209
endgame_tweet(g, score, vin) ==
    LET tweet_content == template_payload(g, "end_game", Some(score_context(g, score)))
    IN  IF tweet_content.err # ""
        THEN Handled(g, Raised(tweet_content.err), <<>>, <<>>)
        ELSE LET e == tweet(g.base, tweet_content.text, vin)
             IN  Handled([g EXCEPT !.base = e.c], e.res,
                         <<Post("end_game", None, score, g.current_username,
                                tweet_content.text)>>, e.calls)

---------------------------------------------------------------------------
(* CornHoleTweeter.on_message, lines 94-192, branch by branch *)

\* a test of the hole id that lets every id through
any_hole_id(hole_id) == hole_id >= 0

\* hole_id in range(6), lines 103, 123 and 138
hole_in_range(hole_id) == hole_id \in range(6)

\* CheerLightColours[name]
colour_named(name) ==
    CHOOSE i \in 1..Len(CheerLightColours) : CheerLightColours[i].name = name

\* lines 98-116: lines 104 and 107 compare hole_state[hole_id].state with
\* True / False (==) and assign nothing
on_state(g, hole_id, message_payload) ==
    IF hole_in_range(hole_id) /\ message_payload \in {<<"o", "n">>, <<"o", "f", "f">>}
           /\ hole_id \notin DOMAIN g.hole_state
    THEN Handled(g, Raised("IndexError"), <<>>, <<>>)
    ELSE Handled(g, Returned, <<>>, <<>>)

\* lines 118-130
on_colour(g, hole_id, message_payload) ==
    IF ~hole_in_range(hole_id) THEN Handled(g, Returned, <<>>, <<>>)
    ELSE IF upper(message_payload) \notin members
         THEN Handled(g, Raised("KeyError"), <<>>, <<>>)
         ELSE IF hole_id \notin DOMAIN g.hole_state
              THEN Handled(g, Raised("IndexError"), <<>>, <<>>)
              ELSE Handled([g EXCEPT !.hole_state[hole_id].colour =
                                        colour_named(upper(message_payload))],
                           Returned, <<>>, <<>>)

\* lines 132-148
on_hit(g, hole_id, message_payload) ==
    IF hole_in_range(hole_id) /\ message_payload = <<"v", "a", "l", "i", "d">>
    THEN IF hole_id \notin DOMAIN g.hole_state
         THEN Handled(g, Raised("IndexError"), <<>>, <<>>)
         ELSE Handled([g EXCEPT !.next_score_tweet_colour =
                                   Some(g.hole_state[hole_id].colour)],
                      Returned, <<>>, <<>>)
    ELSE Handled(g, Returned, <<>>, <<>>)

\* lines 150-160
on_current_score(g, message_payload, vin) ==
    IF g.next_score_tweet_colour = None THEN Handled(g, Returned, <<>>, <<>>)
    ELSE IF py_int(message_payload) = None
         THEN Handled(g, Raised("ValueError"), <<>>, <<>>)
         ELSE LET h == hit_tweet(g, py_int(message_payload)[1],
                                 g.next_score_tweet_colour[1], vin)
              IN  IF h.res.status = "raise" THEN h
                  ELSE Handled([h.g EXCEPT !.next_score_tweet_colour = None],
                               Returned, h.posts, h.calls)

\* a game/end_score branch that also uses up the pending colour
on_end_score_clears_pending(g, message_payload, vin) ==
    IF py_int(message_payload) = None
    THEN Handled(g, Raised("ValueError"), <<>>, <<>>)
    ELSE LET h == endgame_tweet(g, py_int(message_payload)[1], vin)
         IN  IF h.res.status = "raise" THEN h
             ELSE Handled([h.g EXCEPT !.next_score_tweet_colour = None],
                          Returned, h.posts, h.calls)

\* lines 162-169
on_end_score(g, message_payload, vin) ==
    IF py_int(message_payload) = None
    THEN Handled(g, Raised("ValueError"), <<>>, <<>>)
    ELSE LET h == endgame_tweet(g, py_int(message_payload)[1], vin)
         IN  IF h.res.status = "raise" THEN h
             ELSE Handled(h.g, Returned, h.posts, h.calls)

\* lines 171-178
on_username(g, message_payload) ==
    Handled([g EXCEPT !.current_username = message_payload], Returned, <<>>, <<>>)

\* on_message, lines 94-192: the first pattern the topic starts with decides
\* (lines 180-192: $SYS/broker/uptime and any other topic are only logged)
on_message(g, topic, message_payload, vin) ==
    IF match_hole(topic, <<"s", "t", "a", "t", "e">>) # None
    THEN on_state(g, int_of_text(match_hole(topic, <<"s", "t", "a", "t", "e">>)[1]), message_payload)
    ELSE IF match_hole(topic, <<"c", "o", "l", "o", "u", "r">>) # None
    THEN on_colour(g, int_of_text(match_hole(topic, <<"c", "o", "l", "o", "u", "r">>)[1]), message_payload)
    ELSE IF match_hole(topic, <<"h", "i", "t">>) # None
    THEN on_hit(g, int_of_text(match_hole(topic, <<"h", "i", "t">>)[1]), message_payload)
    ELSE IF match_game(topic, <<"c", "u", "r", "r", "e", "n", "t", "_", "s", "c", "o", "r", "e">>)
    THEN on_current_score(g, message_payload, vin)
    ELSE IF match_game(topic, <<"e", "n", "d", "_", "s", "c", "o", "r", "e">>)
    THEN on_end_score(g, message_payload, vin)
    ELSE IF match_game(topic, <<"u", "s", "e", "r", "n", "a", "m", "e">>)
    THEN on_username(g, message_payload)
    ELSE Handled(g, Returned, <<>>, <<>>)

---------------------------------------------------------------------------
(* The state machine of one CornHoleTweeter, its caller and the network    *)
(* loop of its MQTT client                                                 *)

\* the messages the broker delivers
Messages ==
    {[topic |-> <<"h", "o", "l", "e", "s", "/", "0", "/", "s", "t", "a", "t", "e">>,
      payload |-> <<"o", "n">>],
     [topic |-> <<"h", "o", "l", "e", "s", "/", "0", "/", "c", "o", "l", "o", "u", "r">>,
      payload |-> <<"B", "l", "u", "e">>],
     [topic |-> <<"h", "o", "l", "e", "s", "/", "0", "/", "c", "o", "l", "o", "u", "r">>,
      payload |-> <<"d", "a", "r", "k", "b", "l", "u", "e">>],
     [topic |-> <<"h", "o", "l", "e", "s", "/", "0", "/", "h", "i", "t">>,
      payload |-> <<"v", "a", "l", "i", "d">>],
     [topic |-> <<"h", "o", "l", "e", "s", "/", "5", "/", "s", "t", "a", "t", "e">>,
      payload |-> <<"o", "n">>],
     [topic |-> <<"h", "o", "l", "e", "s", "/", "5", "/", "c", "o", "l", "o", "u", "r">>,
      payload |-> <<"B", "l", "u", "e">>],
     [topic |-> <<"h", "o", "l", "e", "s", "/", "5", "/", "c", "o", "l", "o", "u", "r">>,
      payload |-> <<"d", "a", "r", "k", "b", "l", "u", "e">>],
     [topic |-> <<"h", "o", "l", "e", "s", "/", "5", "/", "h", "i", "t">>,
      payload |-> <<"v", "a", "l", "i", "d">>],
     [topic |-> <<"h", "o", "l", "e", "s", "/", "6", "/", "s", "t", "a", "t", "e">>,
      payload |-> <<"o", "n">>],
     [topic |-> <<"h", "o", "l", "e", "s", "/", "6", "/", "c", "o", "l", "o", "u", "r">>,
      payload |-> <<"B", "l", "u", "e">>],
     [topic |-> <<"h", "o", "l", "e", "s", "/", "6", "/", "c", "o", "l", "o", "u", "r">>,
      payload |-> <<"d", "a", "r", "k", "b", "l", "u", "e">>],
     [topic |-> <<"h", "o", "l", "e", "s", "/", "6", "/", "h", "i", "t">>,
      payload |-> <<"v", "a", "l", "i", "d">>],
     [topic |-> <<"h", "o", "l", "e", "s", "/", "1", "2", "/", "s", "t", "a", "t", "e">>,
      payload |-> <<"o", "n">>],
     [topic |-> <<"h", "o", "l", "e", "s", "/", "1", "2", "/", "c", "o", "l", "o", "u", "r">>,
      payload |-> <<"B", "l", "u", "e">>],
     [topic |-> <<"h", "o", "l", "e", "s", "/", "1", "2", "/", "c", "o", "l", "o", "u", "r">>,
      payload |-> <<"d", "a", "r", "k", "b", "l", "u", "e">>],
     [topic |-> <<"h", "o", "l", "e", "s", "/", "1", "2", "/", "h", "i", "t">>,
      payload |-> <<"v", "a", "l", "i", "d">>],
     [topic |-> <<"h", "o", "l", "e", "s", "/", "0", "/", "s", "t", "a", "t", "e">>,
      payload |-> <<"o", "f", "f">>],
     [topic |-> <<"h", "o", "l", "e", "s", "/", "0", "/", "s", "t", "a", "t", "e">>,
      payload |-> <<"j", "u", "n", "k">>],
     [topic |-> <<"h", "o", "l", "e", "s", "/", "0", "/", "h", "i", "t">>,
      payload |-> <<"i", "n", "v", "a", "l", "i", "d">>],
     [topic |-> <<"h", "o", "l", "e", "s", "/", "0", "/", "h", "i", "t">>,
      payload |-> <<"j", "u", "n", "k">>],
     [topic |-> <<"g", "a", "m", "e", "/", "c", "u", "r", "r", "e", "n", "t", "_", "s", "c", "o", "r", "e">>,
      payload |-> <<"5">>],
     [topic |-> <<"g", "a", "m", "e", "/", "c", "u", "r", "r", "e", "n", "t", "_", "s", "c", "o", "r", "e">>,
      payload |-> <<"0", "7">>],
     [topic |-> <<"g", "a", "m", "e", "/", "c", "u", "r", "r", "e", "n", "t", "_", "s", "c", "o", "r", "e">>,
      payload |-> <<"a", "b", "c">>],
     [topic |-> <<"g", "a", "m", "e", "/", "e", "n", "d", "_", "s", "c", "o", "r", "e">>,
      payload |-> <<"5">>],
     [topic |-> <<"g", "a", "m", "e", "/", "e", "n", "d", "_", "s", "c", "o", "r", "e">>,
      payload |-> <<"a", "b", "c">>],
     [topic |-> <<"g", "a", "m", "e", "/", "u", "s", "e", "r", "n", "a", "m", "e">>,
      payload |-> <<"b", "o", "b">>],
     [topic |-> <<"$", "S", "Y", "S", "/", "b", "r", "o", "k", "e", "r", "/", "u", "p", "t", "i", "m", "e">>,
      payload |-> <<"1", "2", " ", "s", "e", "c", "o", "n", "d", "s">>],
     [topic |-> <<"$", "S", "Y", "S", "/", "b", "r", "o", "k", "e", "r", "/", "u", "p", "t", "i", "m", "e">>,
      payload |-> <<"j", "u", "n", "k">>],
     [topic |-> <<"c", "o", "r", "n", "h", "o", "l", "e", "/", "e", "n", "d", "g", "a", "m", "e">>,
      payload |-> <<"5">>],
     [topic |-> <<"h", "o", "l", "e", "s", "/", "0", "/", "h", "i", "t", "s">>,
      payload |-> <<"v", "a", "l", "i", "d">>],
     [topic |-> <<"g", "a", "m", "e", "/", "u", "s", "e", "r", "n", "a", "m", "e", "2">>,
      payload |-> <<"b", "o", "b">>],
     [topic |-> <<"x", "h", "o", "l", "e", "s", "/", "0", "/", "h", "i", "t">>,
      payload |-> <<"v", "a", "l", "i", "d">>]}

\* the record of the last thing that happened: the message handled (or the
\* method the caller ran), the object before it, the outcome, the payloads
\* handed to tweet() and the vendor calls; hit_before and hit_since tell
\* that a hit with payload valid on a hole in range(6) came after the last
\* message on game/current_score, before and after this message
GameEvent(op, topic, message_payload, vin, h, hit_since) ==
    [op |-> op, topic |-> topic, payload |-> message_payload, vin |-> vin,
     pre |-> game, res |-> h.res, posts |-> h.posts, calls |-> h.calls,
     hit_before |-> msg.hit_since, hit_since |-> hit_since]

\* the id of the hole a topic names, on any of the three hole topics
hole_id_of(topic) ==
    IF match_hole(topic, <<"s", "t", "a", "t", "e">>) # None
    THEN Some(int_of_text(match_hole(topic, <<"s", "t", "a", "t", "e">>)[1]))
    ELSE IF match_hole(topic, <<"c", "o", "l", "o", "u", "r">>) # None
    THEN Some(int_of_text(match_hole(topic, <<"c", "o", "l", "o", "u", "r">>)[1]))
    ELSE IF match_hole(topic, <<"h", "i", "t">>) # None
    THEN Some(int_of_text(match_hole(topic, <<"h", "i", "t">>)[1]))
    ELSE None

valid_hit(topic, message_payload) ==
    /\ match_hole(topic, <<"h", "i", "t">>) # None
    /\ int_of_text(match_hole(topic, <<"h", "i", "t">>)[1]) \in range(6)
    /\ message_payload = <<"v", "a", "l", "i", "d">>

InitGame ==
    /\ client = TweepyWrapper("V1", FALSE, FALSE, FALSE)
    /\ fs = KeyPath
    /\ pc = "idle"
    /\ last = NoCall(client, fs)
    /\ connected_since = FALSE
    /\ pair = NoPair
    /\ pair_last = NoPairCall
    /\ api = None /\ api_last = None
    /\ game \in {CornHoleTweeter("V1", FALSE, FALSE), CornHoleTweeter("V2", FALSE, FALSE),
                 CornHoleTweeter("V1", TRUE, FALSE), CornHoleTweeter("V1", FALSE, TRUE)}
    /\ msg = [op |-> "__init__", topic |-> <<>>, payload |-> <<>>, vin |-> None,
              pre |-> game, res |-> Returned, posts |-> <<>>, calls |-> <<>>,
              hit_before |-> FALSE, hit_since |-> FALSE]

\* connect(), line 87: mqtt_connect, lines 67-81, ends with loop_start()
MqttConnect ==
    /\ ~game.loop /\ ~game.connecting
    /\ game' = [game EXCEPT !.loop = TRUE, !.connecting = TRUE]
    /\ msg' = GameEvent("mqtt_connect", <<>>, <<>>, None,
                        Handled(game', Returned, <<>>, <<>>), msg.hit_since)
    /\ UNCHANGED <<client, fs, pc, last, connected_since, pair, pair_last, colour_vars>>

\* connect(), line 88: the connect() of the posting client
TwitterConnect ==
    /\ game.connecting
    /\ \E verify \in {None, Some(MaxUserId)} :
        LET e == connect(game.base, KeyPath, [NoInput EXCEPT !.verify = verify])
        IN  /\ game' = [game EXCEPT !.base = e.c, !.connecting = FALSE]
            /\ msg' = GameEvent("connect", <<>>, <<>>, None,
                                Handled(game', e.res, <<>>, e.calls), msg.hit_since)
    /\ UNCHANGED <<client, fs, pc, last, connected_since, pair, pair_last, colour_vars>>

\* disconnect(), lines 90-92
GameDisconnect ==
    /\ game.loop /\ ~game.connecting
    /\ game' = [game EXCEPT !.loop = FALSE, !.base = disconnect(game.base)]
    /\ msg' = GameEvent("disconnect", <<>>, <<>>, None,
                        Handled(game', Returned, <<>>, <<>>), msg.hit_since)
    /\ UNCHANGED <<client, fs, pc, last, connected_since, pair, pair_last, colour_vars>>

\* the network loop calls on_message for a message of the broker
OnMessage ==
    /\ game.loop
    /\ \E m \in Messages, vin \in {None, Some(MaxTweetId)} :
        LET h == on_message(game, m.topic, m.payload, vin)
        IN  /\ (h.calls = <<>> => vin = None)
            /\ game' = h.g
            /\ msg' = GameEvent("on_message", m.topic, m.payload, vin, h,
                                IF valid_hit(m.topic, m.payload) THEN TRUE
                                ELSE IF match_game(m.topic, <<"c", "u", "r", "r", "e", "n", "t", "_", "s", "c", "o", "r", "e">>) THEN FALSE
                                ELSE msg.hit_since)
    /\ UNCHANGED <<client, fs, pc, last, connected_since, pair, pair_last, colour_vars>>

NextGame ==
    \/ MqttConnect
    \/ TwitterConnect
    \/ GameDisconnect
    \/ OnMessage

SpecGame == InitGame /\ [][NextGame]_vars

---------------------------------------------------------------------------
(* One CornHoleTweeter over a round of the game: a few messages, and a     *)
(* record of what the broker has sent so far                               *)

\* the messages of a round: the colour of hole 0, hits on holes 0 and 5,
\* the names of two players, a score and the end of the game, and two
\* topics that go on after a topic of the client
RoundMessages ==
    {[topic |-> <<"h", "o", "l", "e", "s", "/", "0", "/", "c", "o", "l", "o", "u", "r">>, payload |-> <<"B", "l", "u", "e">>],
     [topic |-> <<"h", "o", "l", "e", "s", "/", "0", "/", "h", "i", "t">>, payload |-> <<"v", "a", "l", "i", "d">>],
     [topic |-> <<"h", "o", "l", "e", "s", "/", "0", "/", "h", "i", "t">>, payload |-> <<"i", "n", "v", "a", "l", "i", "d">>],
     [topic |-> <<"h", "o", "l", "e", "s", "/", "5", "/", "h", "i", "t">>, payload |-> <<"v", "a", "l", "i", "d">>],
     [topic |-> <<"h", "o", "l", "e", "s", "/", "0", "/", "h", "i", "t", "s">>, payload |-> <<"v", "a", "l", "i", "d">>],
     [topic |-> <<"g", "a", "m", "e", "/", "u", "s", "e", "r", "n", "a", "m", "e">>, payload |-> <<"b", "o", "b">>],
     [topic |-> <<"g", "a", "m", "e", "/", "u", "s", "e", "r", "n", "a", "m", "e">>, payload |-> <<"e", "v", "e">>],
     [topic |-> <<"g", "a", "m", "e", "/", "u", "s", "e", "r", "n", "a", "m", "e", "2">>, payload |-> <<"z", "e", "d">>],
     [topic |-> <<"g", "a", "m", "e", "/", "c", "u", "r", "r", "e", "n", "t", "_", "s", "c", "o", "r", "e">>, payload |-> <<"5">>],
     [topic |-> <<"g", "a", "m", "e", "/", "e", "n", "d", "_", "s", "c", "o", "r", "e">>, payload |-> <<"5">>]}

\* the topic f'holes/{hole_id:d}/<leaf>' the client subscribes to
hole_topic(hole_id, leaf) == <<"h", "o", "l", "e", "s", "/">> \o str_of_int(hole_id) \o <<"/">> \o leaf

\* a message with payload valid on the hit topic of one of the six holes
listed_hit(topic, message_payload) ==
    /\ \E hole_id \in range(6) : topic = hole_topic(hole_id, <<"h", "i", "t">>)
    /\ message_payload = <<"v", "a", "l", "i", "d">>

\* the record of the last thing that happened, as in GameEvent, with the
\* payload of the last message on game/username (username_seen) and the
\* colour the hole had at the last valid hit on a hit topic (hit_colour)
RoundEvent(op, topic, message_payload, vin, h) ==
    [op |-> op, topic |-> topic, payload |-> message_payload, vin |-> vin,
     pre |-> game, res |-> h.res, posts |-> h.posts, calls |-> h.calls,
     username_seen |-> IF op = "on_message" /\ topic = <<"g", "a", "m", "e", "/", "u", "s", "e", "r", "n", "a", "m", "e">>
                       THEN message_payload ELSE msg.username_seen,
     hit_colour |-> IF op = "on_message" /\ listed_hit(topic, message_payload)
                    THEN Some(game.hole_state[hole_id_of(topic)[1]].colour)
                    ELSE msg.hit_colour]

InitRound ==
    /\ client = TweepyWrapper("V1", FALSE, FALSE, FALSE)
    /\ fs = KeyPath
    /\ pc = "idle"
    /\ last = NoCall(client, fs)
    /\ connected_since = FALSE
    /\ pair = NoPair
    /\ pair_last = NoPairCall
    /\ api = None /\ api_last = None
    /\ game \in {CornHoleTweeter("V1", FALSE, FALSE), CornHoleTweeter("V1", TRUE, FALSE)}
    /\ msg = [op |-> "__init__", topic |-> <<>>, payload |-> <<>>, vin |-> None,
              pre |-> game, res |-> Returned, posts |-> <<>>, calls |-> <<>>,
              username_seen |-> <<>>, hit_colour |-> None]

\* connect(), line 87: mqtt_connect, lines 67-81, ends with loop_start()
RoundMqttConnect ==
    /\ ~game.loop /\ ~game.connecting
    /\ game' = [game EXCEPT !.loop = TRUE, !.connecting = TRUE]
    /\ msg' = RoundEvent("mqtt_connect", <<>>, <<>>, None,
                         Handled(game', Returned, <<>>, <<>>))
    /\ UNCHANGED <<client, fs, pc, last, connected_since, pair, pair_last, colour_vars>>

\* connect(), line 88: the connect() of the posting client
RoundTwitterConnect ==
    /\ game.connecting
    /\ \E verify \in {None, Some(MaxUserId)} :
        LET e == connect(game.base, KeyPath, [NoInput EXCEPT !.verify = verify])
        IN  /\ game' = [game EXCEPT !.base = e.c, !.connecting = FALSE]
            /\ msg' = RoundEvent("connect", <<>>, <<>>, None,
                                 Handled(game', e.res, <<>>, e.calls))
    /\ UNCHANGED <<client, fs, pc, last, connected_since, pair, pair_last, colour_vars>>

\* disconnect(), lines 90-92
RoundDisconnect ==
    /\ game.loop /\ ~game.connecting
    /\ game' = [game EXCEPT !.loop = FALSE, !.base = disconnect(game.base)]
    /\ msg' = RoundEvent("disconnect", <<>>, <<>>, None,
                         Handled(game', Returned, <<>>, <<>>))
    /\ UNCHANGED <<client, fs, pc, last, connected_since, pair, pair_last, colour_vars>>

\* the network loop calls on_message for a message of the round
RoundMessage ==
    /\ game.loop
    /\ \E m \in RoundMessages, vin \in {None, Some(MaxTweetId)} :
        LET h == on_message(game, m.topic, m.payload, vin)
        IN  /\ (h.calls = <<>> => vin = None)
            /\ game' = h.g
            /\ msg' = RoundEvent("on_message", m.topic, m.payload, vin, h)
    /\ UNCHANGED <<client, fs, pc, last, connected_since, pair, pair_last, colour_vars>>

NextRound ==
    \/ RoundMqttConnect
    \/ RoundTwitterConnect
    \/ RoundDisconnect
    \/ RoundMessage

SpecRound == InitRound /\ [][NextRound]_vars

---------------------------------------------------------------------------
(* The states of the posting client *)

Disconnected(c) ==
    c.twitter_api = None /\ c.twitter_client = None /\ c.user_id = None

Connected(c) ==
    /\ handle(c) # None
    /\ c.user_id # None
    /\ (c.api_version = "V1" => c.twitter_client = None)
    /\ (c.api_version = "V2" => c.twitter_api = None)

Unsuppressed(c) == ~c.suppress_tweeting /\ ~c.suppress_connection

PostingOps == {"tweet", "user_tweets", "destroy_tweet"}
ConnectOps == {"connect", "__enter__"}
DisconnectOps == {"disconnect", "__exit__"}

NotConnectedError == last.res = Raised("NotConnected") /\ last.calls = <<>>

---------------------------------------------------------------------------
(* C1: on a client built with neither suppression flag, while no connect() *)
(* has returned normally since construction or since the last disconnect(), *)
(* tweet(), user_tweets() and destroy_tweet() fail with the not-connected   *)
(* error and make no vendor call, for both API versions.                    *)
C1_NotConnectedUntilConnectSucceeds ==
    (last.op \in PostingOps /\ Unsuppressed(last.pre) /\ ~connected_since)
        => NotConnectedError

(* C2: disconnect() clears the vendor handle and the recorded user          *)
(* identifier whatever came before it; a tweet() that follows it on an      *)
(* unsuppressed client fails with not-connected; a connect() that follows   *)
(* it and returns after verifying the identity leaves the client Connected  *)
(* as the user the vendor confirmed.                                        *)
C2_Lifecycle ==
    /\ last.op \in DisconnectOps => Disconnected(client)
    /\ (last.op = "tweet" /\ last.prev \in DisconnectOps /\ Unsuppressed(last.pre))
          => NotConnectedError
    /\ (last.op \in ConnectOps /\ last.prev \in DisconnectOps
            /\ ~last.pre.suppress_connection /\ last.res.status = "ok")
          => (Connected(client) /\ client.user_id = last.inp.verify)

C2_Reconnected ==
    /\ last.op = "connect" /\ last.prev = "disconnect"
    /\ ~last.pre.suppress_connection /\ last.res.status = "ok"
    /\ Disconnected(last.pre) /\ Connected(client)

(* C3: in every reachable state the client is Disconnected (no handle, no   *)
(* identity) or Connected (handle of the configured version and identity);  *)
(* the configured API version is the one before the last call.              *)
C3_DisconnectedOrConnected ==
    /\ Disconnected(client) \/ Connected(client)
    /\ client.api_version = last.pre.api_version

(* C4: with suppress_tweeting set, tweet() makes no vendor call and returns *)
(* None, whether or not the client is connected, for either API version.    *)
C4_SuppressedTweet ==
    (last.op = "tweet" /\ last.pre.suppress_tweeting)
        => (last.res = ReturnedId(None) /\ last.calls = <<>>)

C4_SuppressedWhileConnected ==
    /\ last.op = "tweet" /\ last.pre.suppress_tweeting
    /\ ~last.pre.suppress_connection /\ Connected(last.pre)
    /\ last.res = ReturnedId(None)

(* C5, as claimed: with suppress_connection unset, tweet() on a client with *)
(* no handle fails with not-connected, also when suppress_tweeting is set.  *)
C5_ConnectionCheckedFirst ==
    (last.op = "tweet" /\ ~last.pre.suppress_connection /\ handle(last.pre) = None)
        => NotConnectedError

(* C5, amended: with suppress_connection unset, tweet() looks at            *)
(* suppress_tweeting first: when it is set the call returns None without a  *)
(* vendor call with or without a handle; the not-connected error is raised  *)
(* only when suppress_tweeting is unset and there is no handle.             *)
C5_SuppressionCheckedFirst ==
    (last.op = "tweet" /\ ~last.pre.suppress_connection)
        => /\ last.pre.suppress_tweeting
                => (last.res = ReturnedId(None) /\ last.calls = <<>>)
           /\ (~last.pre.suppress_tweeting /\ handle(last.pre) = None)
                => NotConnectedError
           /\ last.res.err = "NotConnected"
                => (~last.pre.suppress_tweeting /\ handle(last.pre) = None)

C5_SuppressedWhileDisconnected ==
    /\ last.op = "tweet" /\ last.pre.suppress_tweeting
    /\ ~last.pre.suppress_connection /\ Disconnected(last.pre)
    /\ last.res = ReturnedId(None)

(* C6: with suppress_connection set, connect() reads no credential source,  *)
(* writes no file, makes no vendor call, returns normally and leaves the    *)
(* object as it was; tweet() returns None without a vendor call.            *)
C6_SuppressedConnection ==
    /\ (last.op \in ConnectOps /\ last.pre.suppress_connection)
          => /\ last.res = Returned
             /\ last.calls = <<>>
             /\ last.reads = {}
             /\ last.writes = 0
             /\ client = last.pre
    /\ (last.op = "tweet" /\ last.pre.suppress_connection)
          => (last.res = ReturnedId(None) /\ last.calls = <<>>)

C6_SuppressedWithoutCredentials ==
    /\ last.op = "connect" /\ last.pre.suppress_connection
    /\ last.fs.consumer_file = "absent" /\ last.fs.env = {}
    /\ last.res = Returned

(* C7: on a client that holds a handle and has no suppression flag,         *)
(* tweet(text) makes exactly one vendor call, the create call of the        *)
(* configured version with text as payload, and returns the identifier the  *)
(* vendor gave the post (it raises the vendor's error if the vendor raises). *)
C7_OnePostOfTheConfiguredVersion ==
    (last.op = "tweet" /\ Unsuppressed(last.pre) /\ handle(last.pre) # None)
        => /\ last.calls =
                <<VendorCall(IF last.pre.api_version = "V1"
                             THEN "update_status" ELSE "create_tweet",
                             last.payload, 0)>>
           /\ last.vin_id # None => last.res = ReturnedId(last.vin_id)
           /\ last.vin_id = None => last.res = Raised("VendorError")

C7_PostedOnV2 ==
    /\ last.op = "tweet" /\ Unsuppressed(last.pre) /\ Connected(last.pre)
    /\ last.pre.api_version = "V2"
    /\ last.vin_id = Some(MaxTweetId)
    /\ last.res = ReturnedId(Some(MaxTweetId))

(* C8: destroy_tweet(id) on a client that holds a handle returns normally   *)
(* only if the vendor's response confirms the deletion of id, and fails     *)
(* with the delete-failed error whenever the response does not, for either  *)
(* API version.                                                             *)
C8_DeleteConfirmed ==
    (last.op = "destroy_tweet" /\ handle(last.pre) # None)
        => /\ last.res.status = "ok" <=> last.vin_id = Some(last.num)
           /\ (last.vin_id # None /\ last.vin_id # Some(last.num))
                => last.res = Raised("DeleteFailed")

C8_DeleteNotConfirmedOnV2 ==
    /\ last.op = "destroy_tweet" /\ Connected(last.pre)
    /\ last.pre.api_version = "V2"
    /\ last.vin_id # None /\ last.vin_id # Some(last.num)
    /\ last.res = Raised("DeleteFailed")

(* C9: a V1 and a V2 client built with the same options and given the same  *)
(* calls and the same vendor answers give the caller the same outcome at    *)
(* every step.                                                              *)
C9_SameOutcome == pair_last.o1 = pair_last.o2

(* C10: the body of a with-block runs on a Connected client, the calls made *)
(* in it do not fail with not-connected, and __exit__ leaves the client     *)
(* Disconnected whether the body ended normally or by an exception.         *)
C10_ContextManager ==
    /\ (pc = "body" /\ ~client.suppress_connection)
          => (Connected(client) /\ connected_since)
    /\ (pc \in {"body", "unwinding"} /\ last.op \in PostingOps
            /\ ~client.suppress_connection)
          => last.res.err # "NotConnected"
    /\ last.op = "__exit__" => (Disconnected(client) /\ pc = "idle")

C10_ExitedByException ==
    /\ last.op = "__exit__" /\ last.num = 1
    /\ Connected(last.pre) /\ Disconnected(client)

(* C11: with no consumer file at the key path, a connect() that is not      *)
(* suppressed uses the environment: it fails with unsupported-configuration *)
(* when generate_access_token is set, and with the missing-variable error   *)
(* naming a variable that is not set when one of the four is not set; in    *)
(* both cases it makes no vendor call, writes nothing and leaves the object *)
(* as it was, without handle and identity; it goes on to the vendor only    *)
(* when the four are set and generate_access_token is unset.                *)
C11_EnvironmentMode ==
    (last.op \in ConnectOps /\ ~last.pre.suppress_connection
        /\ last.fs.consumer_file = "absent")
        => /\ last.pre.generate_access_token
                => last.res = Raised("UnsupportedConfiguration")
           /\ (~last.pre.generate_access_token /\ last.fs.env # EnvNameSet)
                => /\ last.res.err = "MissingEnvironmentVariable"
                   /\ last.res.detail \in EnvNameSet \ last.fs.env
           /\ last.res.err \in {"UnsupportedConfiguration", "MissingEnvironmentVariable"}
                => /\ last.calls = <<>>
                   /\ last.writes = 0
                   /\ client = last.pre
                   /\ Disconnected(client)
           /\ (~last.pre.generate_access_token /\ last.fs.env = EnvNameSet)
                => /\ last.reads = {"env"}
                   /\ last.calls # <<>>
                   /\ handle(client) = Some(Handle(TwitterAPIKeys("env", Some("env"))))
           /\ last.calls # <<>>
                => (~last.pre.generate_access_token /\ last.fs.env = EnvNameSet)

C11_AccessTokenVariableMissing ==
    /\ last.op = "connect" /\ ~last.pre.suppress_connection
    /\ last.fs.consumer_file = "absent"
    /\ last.fs.env = EnvNameSet \ {"TWITTER_ACCESS_TOKEN"}
    /\ last.res = RaisedWith("MissingEnvironmentVariable", "TWITTER_ACCESS_TOKEN")
    /\ Disconnected(client)

\* connect() got as far as the overwrite prompt, lines 194-196
Prompted ==
    /\ last.op \in ConnectOps /\ ~last.pre.suppress_connection
    /\ last.pre.generate_access_token
    /\ last.fs.consumer_file = "ok" /\ last.fs.access_file # "absent"
    /\ last.inp.auth_url_ok /\ last.inp.pin_ok

(* C12: one connect() writes the access file at most once; it writes it     *)
(* exactly when generate_access_token is set, the file exists and the       *)
(* operator answers Y to the overwrite prompt; on N the new token pair is   *)
(* used for the handle and the file is left alone; on any other answer      *)
(* connect() fails with the invalid-choice error and the file is left       *)
(* alone; without generate_access_token the file is never written.          *)
C12_AccessFileWrites ==
    last.op \in ConnectOps
        => /\ last.writes \in {0, 1}
           /\ last.writes = 1 <=> (Prompted /\ last.inp.confirm = "Y")
           /\ last.writes = 1 => fs.access_file = "new"
           /\ last.writes = 0 => fs.access_file = last.fs.access_file
           /\ (Prompted /\ last.inp.confirm = "N")
                => /\ handle(client) # None
                   /\ handle(client)[1].keys.access = Some("new")
           /\ (Prompted /\ last.inp.confirm \notin {"Y", "N"})
                => (last.res = Raised("InvalidUserChoice") /\ client = last.pre)
           /\ ~last.pre.generate_access_token => last.writes = 0

C12_AnsweredNo ==
    /\ Prompted /\ last.inp.confirm = "N"
    /\ last.res.status = "ok"
    /\ last.writes = 0 /\ fs.access_file = "file"
    /\ handle(client) = Some(Handle(TwitterAPIKeys("file", Some("new"))))

---------------------------------------------------------------------------
(* The colour arguments the validator is to accept *)

ColourOps == {"verify_colour", "tweet_payload", "tweet"}

\* a string that is, but for the case of its letters, the name of a colour
NamesAColour(colour) ==
    /\ colour.type = "str"
    /\ \E i \in 1..Len(CheerLightColours) :
          lower(colour.text) = lower(CheerLightColours[i].name)

Accepted(colour) == colour.type = "CheerLightColours" \/ NamesAColour(colour)

ColourError == api_last.res.err \in {"TypeError", "ValueError"}

(* C13: verify_colour, tweet_payload and tweet accept a member of the enum  *)
(* and a string that is, but for case, one of the 11 names, and nothing     *)
(* else: an argument of another type (an integer equal to the value of a    *)
(* colour included) raises TypeError, a string that is no name raises       *)
(* ValueError, and then nothing is rendered, no vendor call is made and the *)
(* object is as before, whatever the template and the connection.           *)
C13_VerifyColour ==
    api_last.op \in ColourOps
        => /\ Accepted(api_last.colour) <=> ~ColourError
           /\ api_last.colour.type \notin {"CheerLightColours", "str"}
                => api_last.res = Raised("TypeError")
           /\ (api_last.colour.type = "str" /\ ~NamesAColour(api_last.colour))
                => api_last.res = Raised("ValueError")
           /\ ColourError
                => /\ api_last.payload.text = <<>>
                   /\ api_last.calls = <<>>
                   /\ api = api_last.pre

C13_ValueOfWhiteTweeted ==
    /\ api_last.op = "tweet"
    /\ api_last.colour = PyInt(16777215)
    /\ Connected(api_last.pre.base) /\ Unsuppressed(api_last.pre.base)
    /\ api_last.res = Raised("TypeError")
    /\ api_last.calls = <<>>

(* C14: on an object with the default template and no context of its own,  *)
(* tweet_payload of a member of the enum without jinja_context returns      *)
(* '@cheerlights ' followed by the name in lower case, in which that name   *)
(* occurs once; called again it returns the same payload.                   *)
C14_DefaultPayload ==
    (api_last.op = "tweet_payload" /\ api_last.colour.type = "CheerLightColours"
        /\ api_last.pre.user_template_dir = ""
        /\ api_last.pre.user_template_context = EmptyContext
        /\ api_last.jinja_context = None)
        => /\ api_last.res = Returned
           /\ api_last.payload.text = <<"@", "c", "h", "e", "e", "r", "l", "i", "g", "h", "t", "s", " ">> \o lower(api_last.colour.text)
           /\ occurrences(lower(api_last.colour.text), api_last.payload.text) = 1
           /\ api_last.again => api_last.before = api_last.payload

C14_OldlaceRenderedAgain ==
    /\ api_last.op = "tweet_payload" /\ api_last.again
    /\ api_last.colour = PyColour(6)
    /\ api_last.pre.user_template_dir = ""
    /\ api_last.pre.user_template_context = EmptyContext
    /\ api_last.payload.text = <<"@", "c", "h", "e", "e", "r", "l", "i", "g", "h", "t", "s", " ", "o", "l", "d", "l", "a", "c", "e">>
    /\ api_last.before.text = <<"@", "c", "h", "e", "e", "r", "l", "i", "g", "h", "t", "s", " ", "o", "l", "d", "l", "a", "c", "e">>

(* C15: the context tweet_payload and tweet hand to the template has, for   *)
(* every key, the value of jinja_context if the call gives one, else the    *)
(* value of user_template_context if the object has one, else the built-in  *)
(* one (the colour, under the key 'colour').                                *)
C15_ContextPrecedence ==
    (api_last.op \in {"tweet_payload", "tweet"} /\ ~ColourError)
        => \A k \in ContextKeys :
              api_last.payload.context[k] =
                 IF api_last.jinja_context # None /\ api_last.jinja_context[1][k] # None
                 THEN api_last.jinja_context[1][k]
                 ELSE IF api_last.pre.user_template_context[k] # None
                      THEN api_last.pre.user_template_context[k]
                      ELSE IF k = "colour"
                           THEN Some(PyStr(IF api_last.colour.type = "str"
                                           THEN api_last.colour.text
                                           ELSE lower(api_last.colour.text)))
                           ELSE None

C15_ColourAndUserOverridden ==
    /\ api_last.op = "tweet_payload"
    /\ api_last.colour = PyColour(10)
    /\ api_last.pre.user_template_dir = "custom_template_static_context"
    /\ api_last.pre.user_template_context["colour"] = Some(PyStr(<<"p", "i", "n", "k">>))
    /\ api_last.pre.user_template_context["user"] = Some(PyStr(<<"B", "o", "b">>))
    /\ api_last.jinja_context # None
    /\ api_last.payload.text = <<"@", "c", "h", "e", "e", "r", "l", "i", "g", "h", "t", "s", " ", "b", "l", "u", "e", " ", "f", "r", "o", "m", " ", "E", "v", "e">>

(* C16: tweet_payload and tweet raise the undefined-variable error exactly  *)
(* when the template refers to a key the merged context has no entry for;   *)
(* then there is no payload, no vendor call is made and the object is as    *)
(* before.                                                                  *)
C16_StrictUndefined ==
    (api_last.op \in {"tweet_payload", "tweet"} /\ ~ColourError)
        => /\ (\E k \in references(get_template(api_last.pre)) :
                    api_last.payload.context[k] = None)
                <=> api_last.res = Raised("UndefinedError")
           /\ api_last.res = Raised("UndefinedError")
                => /\ api_last.payload.text = <<>>
                   /\ api_last.calls = <<>>
                   /\ api = api_last.pre

C16_UndefinedWhileConnected ==
    /\ api_last.op = "tweet"
    /\ api_last.pre.user_template_dir = "custom_template_dynamic_context"
    /\ api_last.colour = PyColour(10) /\ api_last.jinja_context = None
    /\ Connected(api_last.pre.base) /\ Unsuppressed(api_last.pre.base)
    /\ api_last.res = Raised("UndefinedError")
    /\ api_last.calls = <<>>

---------------------------------------------------------------------------
(* The messages of the cornhole game *)

OnCurrentScore == msg.op = "on_message" /\ match_game(msg.topic, <<"c", "u", "r", "r", "e", "n", "t", "_", "s", "c", "o", "r", "e">>)

OnHoleTopic == msg.op = "on_message" /\ hole_id_of(msg.topic) # None

\* the payloads the claims call malformed: no colour name on a colour topic,
\* no integer on game/current_score and game/end_score, none of the known
\* words on a state topic and on a hit topic
Malformed ==
    /\ msg.op = "on_message"
    /\ \/ match_hole(msg.topic, <<"c", "o", "l", "o", "u", "r">>) # None /\ upper(msg.payload) \notin members
       \/ match_hole(msg.topic, <<"s", "t", "a", "t", "e">>) # None /\ msg.payload \notin {<<"o", "n">>, <<"o", "f", "f">>}
       \/ match_hole(msg.topic, <<"h", "i", "t">>) # None /\ msg.payload \notin {<<"v", "a", "l", "i", "d">>, <<"i", "n", "v", "a", "l", "i", "d">>}
       \/ match_game(msg.topic, <<"c", "u", "r", "r", "e", "n", "t", "_", "s", "c", "o", "r", "e">>) /\ py_int(msg.payload) = None
       \/ match_game(msg.topic, <<"e", "n", "d", "_", "s", "c", "o", "r", "e">>) /\ py_int(msg.payload) = None

(* C17: a message on game/current_score hands exactly one hit payload to    *)
(* tweet(), rendered from the score of the message and the colour of the    *)
(* hit, if a valid hit on a hole 0..5 came after the previous message on    *)
(* game/current_score, and none otherwise.                                  *)
C17_OneHitPostPerValidHit ==
    OnCurrentScore
        => IF msg.hit_before
           THEN py_int(msg.payload) # None
                    => /\ Len(msg.posts) = 1
                       /\ msg.posts[1].kind = "hit"
                       /\ msg.posts[1].score = py_int(msg.payload)[1]
                       /\ Some(msg.posts[1].colour[1]) = msg.pre.next_score_tweet_colour
           ELSE msg.posts = <<>>

(* C18: after a message on holes/{id}/state with id in 0..5, the state of   *)
(* hole id is true if the payload is 'on', false if it is 'off', and what   *)
(* it was for any other payload.                                            *)
C18_StateFollowsPayload ==
    (msg.op = "on_message" /\ match_hole(msg.topic, <<"s", "t", "a", "t", "e">>) # None
        /\ hole_id_of(msg.topic)[1] \in 0..5)
        => /\ msg.payload = <<"o", "n">>
                => game.hole_state[hole_id_of(msg.topic)[1]].state = TRUE
           /\ msg.payload = <<"o", "f", "f">>
                => game.hole_state[hole_id_of(msg.topic)[1]].state = FALSE
           /\ msg.payload \notin {<<"o", "n">>, <<"o", "f", "f">>}
                => game.hole_state[hole_id_of(msg.topic)[1]].state
                       = msg.pre.hole_state[hole_id_of(msg.topic)[1]].state

(* C19: a message on a state, colour or hit topic of a hole whose id is not *)
(* in 0..5 leaves the object as it was (every hole entry, the pending       *)
(* colour, the username), hands nothing to tweet() and returns normally,    *)
(* whatever its payload.                                                    *)
C19_UnknownHoleDropped ==
    (OnHoleTopic /\ hole_id_of(msg.topic)[1] \notin 0..5)
        => /\ game = msg.pre
           /\ msg.posts = <<>>
           /\ msg.calls = <<>>
           /\ msg.res = Returned

C19_NoColourForHoleTwelve ==
    /\ msg.op = "on_message"
    /\ msg.topic = <<"h", "o", "l", "e", "s", "/", "1", "2", "/", "c", "o", "l", "o", "u", "r">>
    /\ msg.payload = <<"d", "a", "r", "k", "b", "l", "u", "e">>
    /\ msg.res = Returned
    /\ game = msg.pre

(* C20: on_message returns normally for every topic and payload, the       *)
(* failure of a tweet() it called aside; a malformed payload leaves the     *)
(* object as it was, hands nothing to tweet() and raises nothing.           *)
C20_NeverRaises ==
    msg.op = "on_message"
        => /\ msg.posts = <<>> => msg.res = Returned
           /\ Malformed => (game = msg.pre /\ msg.posts = <<>> /\ msg.res = Returned)

---------------------------------------------------------------------------
(* A round of the game: what the posts carry *)

(* C21: every payload on_message hands to tweet(), for a hit or for the end *)
(* of the game, carries the payload of the last message on game/username    *)
(* before it, the empty string if there was none; a message on              *)
(* game/username changes the username of the object and nothing else, and   *)
(* hands nothing to tweet().                                                *)
C21_PostsCarryLastUsername ==
    msg.op = "on_message"
        => /\ \A i \in 1..Len(msg.posts) : msg.posts[i].user_name = msg.username_seen
           /\ msg.topic = <<"g", "a", "m", "e", "/", "u", "s", "e", "r", "n", "a", "m", "e">>
                => /\ game = [msg.pre EXCEPT !.current_username = msg.payload]
                   /\ msg.posts = <<>>
                   /\ msg.calls = <<>>

(* C23: a hit payload handed to tweet() carries the colour the hole of the  *)
(* last valid hit had when it was hit: a valid hit sets the pending colour  *)
(* over the one of an earlier hit, an invalid hit and a later colour        *)
(* message leave it as it was.                                              *)
C23_LastHitWins ==
    msg.op = "on_message"
        => /\ \A i \in 1..Len(msg.posts) :
                  msg.posts[i].kind = "hit" => msg.posts[i].colour = msg.hit_colour
           /\ listed_hit(msg.topic, msg.payload)
                => game.next_score_tweet_colour
                       = Some(msg.pre.hole_state[hole_id_of(msg.topic)[1]].colour)
           /\ (\/ (hole_id_of(msg.topic) # None /\ msg.topic = hole_topic(hole_id_of(msg.topic)[1], <<"h", "i", "t">>)
                     /\ msg.payload = <<"i", "n", "v", "a", "l", "i", "d">>)
               \/ (hole_id_of(msg.topic) # None /\ msg.topic = hole_topic(hole_id_of(msg.topic)[1], <<"c", "o", "l", "o", "u", "r">>)))
                => game.next_score_tweet_colour = msg.pre.next_score_tweet_colour

---------------------------------------------------------------------------
(* The credentials the vendor handle is built from *)

\* connect() got as far as building the handle, line 222 or 224
HandleBuilt ==
    /\ last.op \in ConnectOps
    /\ \E i \in 1..Len(last.calls) : last.calls[i].name \in {"API", "Client"}

(* C22: the handle connect() builds has the consumer pair and the access    *)
(* pair set; with generate_access_token the access pair is the one just     *)
(* exchanged for the PIN, whether the access file exists (answer Y or N) or *)
(* not.                                                                     *)
C22_HandleHasFourKeys ==
    HandleBuilt
        => /\ handle(client) # None
           /\ handle(client)[1].keys.consumer # ""
           /\ handle(client)[1].keys.access # None
           /\ last.pre.generate_access_token
                => handle(client)[1].keys.access = Some("new")

---------------------------------------------------------------------------
(* The pending colour, the topics and the end of the game *)

(* C24: after on_message has handled a message on game/current_score the    *)
(* pending colour is unset, whether it was set before or not and whether    *)
(* the hit payload was sent, suppressed or tweet() failed; the score is an  *)
(* integer.                                                                 *)
C24_PendingClearedByScore ==
    (msg.op = "on_message" /\ msg.topic = <<"g", "a", "m", "e", "/", "c", "u", "r", "r", "e", "n", "t", "_", "s", "c", "o", "r", "e">>
        /\ py_int(msg.payload) # None)
        => game.next_score_tweet_colour = None

\* the topics on_message has a branch for, spelt out in full; MaxHoleId is
\* the largest hole id a message of the model names
MaxHoleId == 12

listed_topic(topic) ==
    \/ \E hole_id \in 0..MaxHoleId, leaf \in {<<"s", "t", "a", "t", "e">>, <<"c", "o", "l", "o", "u", "r">>, <<"h", "i", "t">>} :
          topic = hole_topic(hole_id, leaf)
    \/ topic \in {<<"g", "a", "m", "e", "/", "c", "u", "r", "r", "e", "n", "t", "_", "s", "c", "o", "r", "e">>, <<"g", "a", "m", "e", "/", "e", "n", "d", "_", "s", "c", "o", "r", "e">>, <<"g", "a", "m", "e", "/", "u", "s", "e", "r", "n", "a", "m", "e">>,
                  <<"$", "S", "Y", "S", "/", "b", "r", "o", "k", "e", "r", "/", "u", "p", "t", "i", "m", "e">>}

(* C25: a message whose topic is none of holes/{id}/state,                  *)
(* holes/{id}/colour, holes/{id}/hit, game/current_score, game/end_score,   *)
(* game/username and $SYS/broker/uptime, a listed topic with characters     *)
(* after it included, leaves the object as it was and hands nothing to      *)
(* tweet(); so does a message on $SYS/broker/uptime.                        *)
C25_OtherTopicsIgnored ==
    (msg.op = "on_message"
        /\ (~listed_topic(msg.topic) \/ msg.topic = <<"$", "S", "Y", "S", "/", "b", "r", "o", "k", "e", "r", "/", "u", "p", "t", "i", "m", "e">>))
        => /\ game = msg.pre
           /\ msg.posts = <<>>
           /\ msg.calls = <<>>

---------------------------------------------------------------------------
(* The network loop of the MQTT client and connect() / disconnect() *)

(* C29: on_message never hands a payload to tweet() while the posting       *)
(* client of an unsuppressed object has no handle: not before the connect() *)
(* of the posting client has completed and not after disconnect() has       *)
(* cleared the handle, however the network loop and the caller interleave.  *)
C29_NoPostWhileDisconnected ==
    (msg.op = "on_message" /\ Unsuppressed(msg.pre.base) /\ msg.posts # <<>>)
        => /\ handle(msg.pre.base) # None
           /\ msg.res.err # "NotConnected"

---------------------------------------------------------------------------
(* The colour of the payload and the arguments of the caller *)

(* C30: for a string that is the name of a colour in any casing,            *)
(* tweet_payload and tweet render the payload they render for the member of *)
(* the enum with that name (the name in lower case): the payload does not   *)
(* depend on the casing of the string.                                      *)
C30_CasingDoesNotMatter ==
    (api_last.op \in {"tweet_payload", "tweet"} /\ NamesAColour(api_last.colour))
        => \A i \in 1..Len(CheerLightColours) :
              upper(api_last.colour.text) = CheerLightColours[i].name
                => /\ api_last.payload.err
                          = tweet_payload(api_last.pre, PyColour(i), api_last.jinja_context).err
                   /\ api_last.payload.text
                          = tweet_payload(api_last.pre, PyColour(i), api_last.jinja_context).text

\* the call does not give the key k in its jinja_context
NotSupplied(k) == api_last.jinja_context = None \/ api_last.jinja_context[1][k] = None

(* C27: a jinja_context reaches only the call it is passed to: tweet_payload *)
(* and tweet leave user_template_context of the object as it was, and a key  *)
(* the call does not give has in its context the value of                    *)
(* user_template_context, none if that has none, whatever an earlier call    *)
(* gave for it.                                                              *)
C27_DynamicContextPerCall ==
    api_last.op \in {"tweet_payload", "tweet"}
        => /\ api.user_template_context = api_last.pre.user_template_context
           /\ ~ColourError
                => \A k \in ContextKeys \ {"colour"} :
                      NotSupplied(k)
                        => api_last.payload.context[k]
                               = api_last.pre.user_template_context[k]

C27_AliceNotKept ==
    /\ api_last.op = "tweet_payload"
    /\ api_last.before.err = ""
    /\ api_last.before.context["other_user"] = Some(PyStr(<<"A", "l", "i", "c", "e">>))
    /\ api_last.before.text = <<"@", "c", "h", "e", "e", "r", "l", "i", "g", "h", "t", "s", " ", "o", "r", "a", "n", "g", "e", " ", "f", "r", "o", "m", " ", "B", "o", "b", " ", "t", "o", " ", "A", "l", "i", "c", "e">>
    /\ api_last.jinja_context = None
    /\ api_last.payload.context["user"] = Some(PyStr(<<"B", "o", "b">>))
    /\ api_last.payload.context["other_user"] = None
    /\ api_last.res = Raised("UndefinedError")

(* C28: verify_colour and tweet_payload give the same result whether the    *)
(* posting client is Disconnected or Connected; they make no vendor call    *)
(* and leave the object as it was (connection, handle, identity, context),  *)
(* whether they return or raise.                                            *)
C28_PureWithRespectToClient ==
    api_last.op \in {"verify_colour", "tweet_payload"}
        => /\ api = api_last.pre
           /\ api_last.calls = <<>>
           /\ api_last.res.err \in {"", "TypeError", "ValueError", "UndefinedError"}
           /\ api_last.op = "tweet_payload"
                => api_last.payload
                       = tweet_payload([api_last.pre EXCEPT !.base = disconnect(api_last.pre.base)],
                                       api_last.colour, api_last.jinja_context)
           /\ api_last.op = "verify_colour"
                => api_last.payload.err = verify_colour(api_last.colour)

C28_RaisedWhileConnected ==
    /\ api_last.op = "tweet_payload"
    /\ Connected(api_last.pre.base) /\ Unsuppressed(api_last.pre.base)
    /\ api_last.colour = PyStr(<<"d", "a", "r", "k", "b", "l", "u", "e">>)
    /\ api_last.res = Raised("ValueError")
    /\ api = api_last.pre
    /\ Connected(api.base)

===========================================================================
